---- MODULE Spec2Model ----
(***************************************************************************)
(* LumoraPrompter: the request-classification and instruction-assembly     *)
(* pipeline (RequestAnalyzer, TechniqueSelector, MetaInstructionBuilder,   *)
(* PromptOptimizer) as a state machine.                                    *)
(*                                                                         *)
(* A JavaScript string is a sequence of one-character strings, so that     *)
(* toLowerCase, includes, split, join and the regular expressions of the   *)
(* source are computed on the characters, as the source computes them.     *)
(* A character outside Latin-1 is written by its code point ("U+26A0").    *)
(* An enum value (TaskType, ComplexityLevel, PromptingTechnique) is a      *)
(* TLA+ string; Text gives its characters where the source interpolates it.*)
(***************************************************************************)
EXTENDS Integers, Sequences, FiniteSets, TLC

VARIABLES
    pc,               \* position of the server: idle, received, analyzed, selected, built,
                      \* optimized, validated, responded, failed
    call,             \* the tools/call request being handled: its tool name and arguments
    request,          \* args.user_request of the call being handled
    context,          \* args.context of the call being handled (NoContext if absent)
    firstReading,     \* result of RequestAnalyzer.firstReading
    analysis,         \* AnalysisResult returned by RequestAnalyzer.analyze
    techniques,       \* TechniqueApplication[] returned by selectTechniques
    metaInstructions, \* MetaInstructionFramework built for the call
    result,           \* OptimizationResult returned by PromptOptimizer.optimize
    validation,       \* what validateResult returned for the result
    response,         \* what the handler answers the call with: content, or an McpError
    qualityScore,     \* QualityScore returned by QualityEvaluator.evaluateQuality
    domainTemplate,   \* what DomainMatcher.matchDomain returned
    previous          \* what the previous completed call was given and returned

vars == <<pc, call, request, context, firstReading, analysis, techniques, metaInstructions,
          result, validation, response, qualityScore, domainTemplate,
          previous>>

---------------------------------------------------------------------------
(* String primitives of the JavaScript runtime *)

WhiteSpace == {" ", "\t", "\n"}

UpperCase == <<"A","B","C","D","E","F","G","H","I","J","K","L","M","N","O","P","Q","R","S","T","U","V","W","X","Y","Z","Á","É","Í","Ó","Ú","Â","Ê","Ô","Ã","Õ","Ç">>
LowerCase == <<"a","b","c","d","e","f","g","h","i","j","k","l","m","n","o","p","q","r","s","t","u","v","w","x","y","z","á","é","í","ó","ú","â","ê","ô","ã","õ","ç">>

Digits == <<"0","1","2","3","4","5","6","7","8","9">>

LowerOf == [c \in {UpperCase[k] : k \in 1..Len(UpperCase)} |->
               LowerCase[CHOOSE k \in 1..Len(UpperCase) : UpperCase[k] = c]]

\* String.prototype.toLowerCase
toLowerCase(s) == [i \in 1..Len(s) |-> IF s[i] \in DOMAIN LowerOf THEN LowerOf[s[i]] ELSE s[i]]

\* String.prototype.includes
includes(s, p) == \E i \in 0..(Len(s) - Len(p)) : \A j \in 1..Len(p) : s[i + j] = p[j]

\* Array.prototype.includes
arrayIncludes(arr, x) == \E i \in 1..Len(arr) : arr[i] = x

\* Array.prototype.join, computed by halves
RECURSIVE join(_, _)
join(parts, sep) ==
    IF Len(parts) = 0 THEN <<>>
    ELSE IF Len(parts) = 1 THEN parts[1]
    ELSE LET half == Len(parts) \div 2
         IN join(SubSeq(parts, 1, half), sep) \o sep
              \o join(SubSeq(parts, half + 1, Len(parts)), sep)

\* Array.prototype.slice(0, n)
slice0(arr, n) == SubSeq(arr, 1, IF Len(arr) < n THEN Len(arr) ELSE n)

\* String.prototype.split(/\s+/): the pieces between the maximal runs of white
\* space; a leading or trailing run leaves an empty piece, "" gives [""].
splitWhiteSpace(s) ==
    LET n         == Len(s)
        isSpace(i) == i >= 1 /\ i <= n /\ s[i] \in WhiteSpace
        runStarts == {i \in 1..n : isSpace(i) /\ ~isSpace(i - 1)}
        runEnds   == {i \in 1..n : isSpace(i) /\ ~isSpace(i + 1)}
        \* the k-th smallest element of a set of positions
        nth(S, k) == CHOOSE x \in S : Cardinality({y \in S : y < x}) = k - 1
        pieceFrom(k) == IF k = 1 THEN 1 ELSE nth(runEnds, k - 1) + 1
        pieceTo(k)   == IF k = Cardinality(runStarts) + 1 THEN n ELSE nth(runStarts, k) - 1
    IN [k \in 1..(Cardinality(runStarts) + 1) |-> SubSeq(s, pieceFrom(k), pieceTo(k))]

\* [...new Set(words)]: the first occurrence of each element, in order
RECURSIVE uniqueInOrder(_)
uniqueInOrder(arr) ==
    IF Len(arr) = 0 THEN <<>>
    ELSE LET init == uniqueInOrder(SubSeq(arr, 1, Len(arr) - 1))
             last == arr[Len(arr)]
         IN IF arrayIncludes(init, last) THEN init ELSE Append(init, last)

\* String(n) of a non-negative integer
RECURSIVE numberToString(_)
numberToString(n) ==
    IF n < 10 THEN <<Digits[n + 1]>>
    ELSE numberToString(n \div 10) \o <<Digits[(n % 10) + 1]>>

\* \w of a JavaScript regular expression (ASCII letters, digits, underscore)
IsWordChar(c) ==
    \/ \E k \in 1..26 : c = UpperCase[k] \/ c = LowerCase[k]
    \/ \E k \in 1..10 : c = Digits[k]
    \/ c = "_"

\* /\b(w1|w2|...)\b/i .test(s): some alternative occurs in s, ignoring
\* case, with a word boundary on each side
testWordRegexIgnoreCase(s, alternatives) ==
    LET low == toLowerCase(s)
        boundary(k) ==   \* \b between positions k and k+1
            LET before == k >= 1 /\ IsWordChar(s[k])
                after  == k + 1 <= Len(s) /\ IsWordChar(s[k + 1])
            IN before # after
    IN \E a \in 1..Len(alternatives) :
         \E i \in 0..(Len(s) - Len(alternatives[a])) :
            /\ \A j \in 1..Len(alternatives[a]) : low[i + j] = alternatives[a][j]
            /\ boundary(i)
            /\ boundary(i + Len(alternatives[a]))

\* Array.prototype.sort((a, b) => score(b) - score(a)) on entries that carry
\* their score: a stable sort (ECMAScript 2019) into descending score order
RECURSIVE sortDescending(_)
sortDescending(entries) ==
    IF Len(entries) <= 1 THEN entries
    ELSE LET init == sortDescending(SubSeq(entries, 1, Len(entries) - 1))
             last == entries[Len(entries)]
             \* the last entry goes after every entry that scores at least as much
             keep == Cardinality({i \in 1..Len(init) :
                                    \A k \in 1..i : init[k].score >= last.score})
         IN SubSeq(init, 1, keep) \o <<last>> \o SubSeq(init, keep + 1, Len(init))

---------------------------------------------------------------------------
(* types.ts *)

TaskTypes == {"criativa", "tecnica", "analitica", "educacional", "debate", "documentacao", "codigo", "mista"}

ComplexityLevels == {"basico", "intermediario", "avancado", "expert"}

PromptingTechniques ==
    {"role_prompting", "emotion_prompting", "iq_attribution", "fake_past_consistency",
     "fake_audience", "obviously", "false_restriction", "version_2", "someone_disagrees",
     "bet_100_dollars", "simtom", "re2", "rar"}

\* the characters of an enum value, where a template literal interpolates it
Text(v) ==
    CASE v = "basico"        -> <<"b","a","s","i","c","o">>  \* 'basico'
      [] v = "intermediario" -> <<"i","n","t","e","r","m","e","d","i","a","r","i","o">>  \* 'intermediario'
      [] v = "avancado"      -> <<"a","v","a","n","c","a","d","o">>  \* 'avancado'
      [] v = "expert"        -> <<"e","x","p","e","r","t">>  \* 'expert'
      [] v = "criativa"      -> <<"c","r","i","a","t","i","v","a">>  \* 'criativa'
      [] v = "tecnica"       -> <<"t","e","c","n","i","c","a">>  \* 'tecnica'
      [] v = "analitica"     -> <<"a","n","a","l","i","t","i","c","a">>  \* 'analitica'
      [] v = "educacional"   -> <<"e","d","u","c","a","c","i","o","n","a","l">>  \* 'educacional'
      [] v = "debate"        -> <<"d","e","b","a","t","e">>  \* 'debate'
      [] v = "documentacao"  -> <<"d","o","c","u","m","e","n","t","a","c","a","o">>  \* 'documentacao'
      [] v = "codigo"        -> <<"c","o","d","i","g","o">>  \* 'codigo'
      [] v = "mista"         -> <<"m","i","s","t","a">>  \* 'mista'
      [] v = "high"          -> <<"h","i","g","h">>  \* 'high'
      [] v = "medium"        -> <<"m","e","d","i","u","m">>  \* 'medium'
      [] v = "low"           -> <<"l","o","w">>  \* 'low'

---------------------------------------------------------------------------
(* RequestAnalyzer *)

\* the keys of `patterns`, in declaration order (the order of Object.entries)
patternTypes == <<"codigo", "tecnica", "criativa", "analitica", "educacional", "debate", "documentacao", "mista">>

patterns(type) ==
    CASE type = "codigo" ->
           << <<"c","ó","d","i","g","o">>, <<"p","r","o","g","r","a","m","a">>, <<"f","u","n","ç","ã","o">>, <<"c","l","a","s","s">>, <<"i","m","p","l","e","m","e","n","t","a","r">>,  \* 'código' | 'programa' | 'função' | 'class' | 'implementar'
              <<"d","e","b","u","g">>, <<"r","e","f","a","c","t","o","r">>, <<"b","u","g">>, <<"s","c","r","i","p","t">>, <<"a","p","i">> >>  \* 'debug' | 'refactor' | 'bug' | 'script' | 'api'
      [] type = "tecnica" ->
           << <<"c","o","m","o"," ","f","a","z","e","r">>, <<"t","é","c","n","i","c","a">>, <<"m","é","t","o","d","o">>, <<"p","r","o","c","e","s","s","o">>, <<"a","l","g","o","r","i","t","m","o">>,  \* 'como fazer' | 'técnica' | 'método' | 'processo' | 'algoritmo'
              <<"o","t","i","m","i","z","a","r">>, <<"c","o","n","f","i","g","u","r","a","r">>, <<"s","e","t","u","p">> >>  \* 'otimizar' | 'configurar' | 'setup'
      [] type = "criativa" ->
           << <<"c","r","i","a","r">>, <<"d","e","s","i","g","n">>, <<"a","r","t","e">>, <<"c","r","i","a","t","i","v","o">>, <<"i","n","o","v","a","d","o","r">>,  \* 'criar' | 'design' | 'arte' | 'criativo' | 'inovador'
              <<"i","m","a","g","i","n","a","r">>, <<"i","n","v","e","n","t","a","r">>, <<"a","s","c","i","i"," ","a","r","t">>, <<"l","o","g","o">> >>  \* 'imaginar' | 'inventar' | 'ascii art' | 'logo'
      [] type = "analitica" ->
           << <<"a","n","a","l","i","s","a","r">>, <<"c","o","m","p","a","r","a","r">>, <<"a","v","a","l","i","a","r">>, <<"q","u","a","l"," ","m","e","l","h","o","r">>, <<"d","i","f","e","r","e","n","ç","a">>,  \* 'analisar' | 'comparar' | 'avaliar' | 'qual melhor' | 'diferença'
              <<"p","r","ó","s"," ","e"," ","c","o","n","t","r","a","s">>, <<"v","s">> >>  \* 'prós e contras' | 'vs'
      [] type = "educacional" ->
           << <<"e","x","p","l","i","c","a","r">>, <<"e","n","s","i","n","a","r">>, <<"c","o","m","o"," ","f","u","n","c","i","o","n","a">>, <<"o"," ","q","u","e"," ","é">>, <<"t","u","t","o","r","i","a","l">>,  \* 'explicar' | 'ensinar' | 'como funciona' | 'o que é' | 'tutorial'
              <<"a","p","r","e","n","d","e","r">>, <<"e","n","t","e","n","d","e","r">> >>  \* 'aprender' | 'entender'
      [] type = "debate" ->
           << <<"d","i","s","c","u","t","i","r">>, <<"a","r","g","u","m","e","n","t","a","r">>, <<"o","p","i","n","i","ã","o">>, <<"d","e","b","a","t","e">>, <<"c","o","n","t","r","o","v","e","r","s","o">>,  \* 'discutir' | 'argumentar' | 'opinião' | 'debate' | 'controverso'
              <<"m","e","l","h","o","r">>, <<"p","i","o","r">> >>  \* 'melhor' | 'pior'
      [] type = "documentacao" ->
           << <<"d","o","c","u","m","e","n","t","a","r">>, <<"d","o","c","u","m","e","n","t","a","ç","ã","o">>, <<"r","e","a","d","m","e">>, <<"c","o","m","e","n","t","a","r">>, <<"e","s","p","e","c","i","f","i","c","a","r">>,  \* 'documentar' | 'documentação' | 'readme' | 'comentar' | 'especificar'
              <<"d","e","s","c","r","e","v","e","r">> >>  \* 'descrever'
      [] type = "mista" -> << >>

\* keywords.filter(keyword => lowerRequest.includes(keyword)).length
countIncluded(lowerRequest, words) ==
    Cardinality({k \in 1..Len(words) : includes(lowerRequest, words[k])})

\* the keyword-match count of one task type
typeScore(req, type) == countIncluded(toLowerCase(req), patterns(type))

\* identifyTaskType without the sort: the first type that matched, whatever its count
identifyTaskType_FirstMatch(req) ==
    LET matchedTypes == SelectSeq(patternTypes, LAMBDA t : typeScore(req, t) > 0)
    IN IF Len(matchedTypes) > 2 THEN "mista"
       ELSE IF Len(matchedTypes) = 0 THEN "tecnica"
       ELSE matchedTypes[1]

identifyTaskType(req) ==
    LET score(t)     == typeScore(req, t)
        \* the entries of `scores`: the types with a nonzero score, in declaration order
        matchedTypes == SelectSeq(patternTypes, LAMBDA t : score(t) > 0)
        entries      == [i \in 1..Len(matchedTypes) |->
                            [type |-> matchedTypes[i], score |-> score(matchedTypes[i])]]
        sorted       == sortDescending(entries)
    IN IF Len(matchedTypes) > 2 THEN "mista"
       ELSE IF Len(sorted) > 0 THEN sorted[1].type
       ELSE "tecnica"

expertIndicators ==
    << <<"a","v","a","n","ç","a","d","o">>, <<"e","x","p","e","r","t">>, <<"c","o","m","p","l","e","x","o">>, <<"o","t","i","m","i","z","a","d","o">>, <<"p","e","r","f","o","r","m","a","n","c","e">>,  \* 'avançado' | 'expert' | 'complexo' | 'otimizado' | 'performance'
       <<"a","r","q","u","i","t","e","t","u","r","a">>, <<"e","s","c","a","l","á","v","e","l">>, <<"3","d">>, <<"a","l","g","o","r","i","t","m","o">> >>  \* 'arquitetura' | 'escalável' | '3d' | 'algoritmo'

intermediateIndicators ==
    << <<"m","e","l","h","o","r","a","r">>, <<"r","e","f","a","t","o","r","a","r">>, <<"e","s","t","r","u","t","u","r","a","r">>, <<"o","r","g","a","n","i","z","a","r">>, <<"i","n","t","e","g","r","a","r">>, <<"a","p","i">> >>  \* 'melhorar' | 'refatorar' | 'estruturar' | 'organizar' | 'integrar' | 'api'

basicIndicators ==
    << <<"s","i","m","p","l","e","s">>, <<"b","á","s","i","c","o">>, <<"i","n","i","c","i","a","n","t","e">>, <<"e","x","e","m","p","l","o">>, <<"h","e","l","l","o"," ","w","o","r","l","d">>, <<"t","u","t","o","r","i","a","l">> >>  \* 'simples' | 'básico' | 'iniciante' | 'exemplo' | 'hello world' | 'tutorial'

codeTerms ==
    << <<"c","l","a","s","s">>, <<"f","u","n","c","t","i","o","n">>, <<"a","s","y","n","c">>, <<"a","w","a","i","t">>, <<"a","p","i">>, <<"d","a","t","a","b","a","s","e">>, <<"s","e","r","v","e","r">> >>  \* 'class' | 'function' | 'async' | 'await' | 'api' | 'database' | 'server'

\* request.split(/\s+/).length
wordCount(req) == Len(splitWhiteSpace(req))

hasCodeTerms(req) == testWordRegexIgnoreCase(req, codeTerms)

expertScore(req) == countIncluded(toLowerCase(req), expertIndicators)

intermediateScore(req) == countIncluded(toLowerCase(req), intermediateIndicators)

basicScore(req) == countIncluded(toLowerCase(req), basicIndicators)

\* assessComplexity falling through to basico
assessComplexity_DefaultBasic(req) ==
    IF expertScore(req) > 0 \/ (wordCount(req) > 30 /\ hasCodeTerms(req)) THEN "expert"
    ELSE IF intermediateScore(req) > 0 \/ wordCount(req) > 20 THEN "avancado"
    ELSE "basico"

\* assessComplexity with the basic tier tested before the intermediate tier
assessComplexity_BasicFirst(req) ==
    IF expertScore(req) > 0 \/ (wordCount(req) > 30 /\ hasCodeTerms(req)) THEN "expert"
    ELSE IF basicScore(req) > 0 THEN "basico"
    ELSE IF intermediateScore(req) > 0 \/ wordCount(req) > 20 THEN "avancado"
    ELSE "intermediario"

assessComplexity(req) ==
    IF expertScore(req) > 0 \/ (wordCount(req) > 30 /\ hasCodeTerms(req)) THEN "expert"
    ELSE IF intermediateScore(req) > 0 \/ wordCount(req) > 20 THEN "avancado"
    ELSE IF basicScore(req) > 0 THEN "basico"
    ELSE "intermediario"

\* the alternatives of /^(para|isso|...|preciso)$/
stopWords ==
    << <<"p","a","r","a">>, <<"i","s","s","o">>, <<"e","s","s","e">>, <<"e","s","t","e">>, <<"c","o","m","o">>, <<"f","a","z","e","r">>, <<"c","r","i","a","r">>, <<"v","o","c","ê">>,  \* 'para' | 'isso' | 'esse' | 'este' | 'como' | 'fazer' | 'criar' | 'você'
       <<"p","o","d","e">>, <<"d","e","v","e">>, <<"q","u","e","r","o">>, <<"p","r","e","c","i","s","o">> >>  \* 'pode' | 'deve' | 'quero' | 'preciso'

extractKeywords(req) ==
    LET words == SelectSeq(SelectSeq(splitWhiteSpace(toLowerCase(req)),
                                     LAMBDA word : Len(word) > 4),
                           LAMBDA word : ~arrayIncludes(stopWords, word))
    IN slice0(uniqueInOrder(words), 5)

NoContext == <<"undefined">>

firstReadingOf(req, ctx) ==
    [ taskType        |-> identifyTaskType(req),
      complexityLevel |-> assessComplexity(req),
      keywords        |-> extractKeywords(req),
      hasContext      |-> (ctx # NoContext /\ ctx # <<>>) ]

\* keywords[0] || fallback
firstKeywordOr(keywords, fallback) == IF Len(keywords) > 0 THEN keywords[1] ELSE fallback

\* identifyMainObjective quoting the request text
identifyMainObjective_FromRequest(req, first) ==
    <<"R","e","s","o","l","v","e","r"," ","s","o","l","i","c","i","t","a","ç","ã","o"," ","d","o"," ","u","s","u","á","r","i","o",":"," ">> \o req  \* 'Resolver solicitação do usuário: '

identifyMainObjective(req, first) ==
    LET taskType == first.taskType
        keywords == first.keywords
    IN CASE taskType = "codigo" ->
              <<"I","m","p","l","e","m","e","n","t","a","r"," ","c","ó","d","i","g","o"," ","p","a","r","a"," ">> \o join(slice0(keywords, 2), <<" ","e"," ">>)  \* 'Implementar código para ' | ' e '
         [] taskType = "tecnica" ->
              <<"E","x","p","l","i","c","a","r"," ","t","é","c","n","i","c","a","/","m","é","t","o","d","o"," ","d","e"," ">> \o firstKeywordOr(keywords, <<"p","r","o","c","e","s","s","o">>)  \* 'Explicar técnica/método de ' | 'processo'
         [] taskType = "criativa" ->
              <<"C","r","i","a","r"," ","s","o","l","u","ç","ã","o"," ","c","r","i","a","t","i","v","a"," ","p","a","r","a"," ">> \o firstKeywordOr(keywords, <<"p","r","o","j","e","t","o">>)  \* 'Criar solução criativa para ' | 'projeto'
         [] taskType = "analitica" ->
              <<"A","n","a","l","i","s","a","r"," ","e"," ","c","o","m","p","a","r","a","r"," ">> \o join(slice0(keywords, 2), <<" ","v","s"," ">>)  \* 'Analisar e comparar ' | ' vs '
         [] taskType = "educacional" ->
              <<"E","n","s","i","n","a","r"," ","c","o","n","c","e","i","t","o"," ","d","e"," ">> \o firstKeywordOr(keywords, <<"t","ó","p","i","c","o">>)  \* 'Ensinar conceito de ' | 'tópico'
         [] taskType = "debate" ->
              <<"D","e","b","a","t","e","r"," ","a","r","g","u","m","e","n","t","o","s"," ","s","o","b","r","e"," ">> \o firstKeywordOr(keywords, <<"t","e","m","a">>)  \* 'Debater argumentos sobre ' | 'tema'
         [] taskType = "documentacao" ->
              <<"D","o","c","u","m","e","n","t","a","r"," ">> \o firstKeywordOr(keywords, <<"p","r","o","j","e","t","o">>)  \* 'Documentar ' | 'projeto'
         [] taskType = "mista" ->
              <<"R","e","a","l","i","z","a","r"," ","t","a","r","e","f","a"," ","c","o","m","p","l","e","x","a"," ","e","n","v","o","l","v","e","n","d","o"," ">> \o join(slice0(keywords, 2), <<" ","e"," ">>)  \* 'Realizar tarefa complexa envolvendo ' | ' e '
         [] OTHER -> <<"R","e","s","o","l","v","e","r"," ","s","o","l","i","c","i","t","a","ç","ã","o"," ","d","o"," ","u","s","u","á","r","i","o">>  \* 'Resolver solicitação do usuário'

extractImplicitContext(req, first) ==
    LET lowerRequest == toLowerCase(req)
        when(cond, text) == IF cond THEN <<text>> ELSE <<>>
    IN when(includes(lowerRequest, <<"n","o","d","e">>) \/ includes(lowerRequest, <<"j","a","v","a","s","c","r","i","p","t">>)  \* 'node' | 'javascript'
                \/ includes(lowerRequest, <<"n","p","m">>),  \* 'npm'
            <<"A","m","b","i","e","n","t","e"," ","N","o","d","e",".","j","s","/","J","a","v","a","S","c","r","i","p","t">>)  \* 'Ambiente Node.js/JavaScript'
       \o when(includes(lowerRequest, <<"p","y","t","h","o","n">>), <<"A","m","b","i","e","n","t","e"," ","P","y","t","h","o","n">>)  \* 'python' | 'Ambiente Python'
       \o when(includes(lowerRequest, <<"r","e","a","c","t">>) \/ includes(lowerRequest, <<"v","u","e">>)  \* 'react' | 'vue'
                \/ includes(lowerRequest, <<"a","n","g","u","l","a","r">>),  \* 'angular'
               <<"F","r","o","n","t","e","n","d"," ","f","r","a","m","e","w","o","r","k">>)  \* 'Frontend framework'
       \o when(includes(lowerRequest, <<"p","r","o","d","u","ç","ã","o">>) \/ includes(lowerRequest, <<"p","r","o","d","u","c","t","i","o","n">>),  \* 'produção' | 'production'
               <<"C","ó","d","i","g","o"," ","p","a","r","a"," ","p","r","o","d","u","ç","ã","o"," ","-"," ","a","l","t","a"," ","q","u","a","l","i","d","a","d","e"," ","n","e","c","e","s","s","á","r","i","a">>)  \* 'Código para produção - alta qualidade necessária'
       \o when(includes(lowerRequest, <<"a","p","r","e","n","d","e","r">>) \/ includes(lowerRequest, <<"e","s","t","u","d","a","r">>),  \* 'aprender' | 'estudar'
               <<"F","i","n","a","l","i","d","a","d","e"," ","e","d","u","c","a","c","i","o","n","a","l">>)  \* 'Finalidade educacional'
       \o when(first.complexityLevel = "expert",
               <<"N","e","c","e","s","s","i","t","a"," ","a","b","o","r","d","a","g","e","m"," ","p","r","o","f","i","s","s","i","o","n","a","l"," ","e"," ","o","t","i","m","i","z","a","d","a">>)  \* 'Necessita abordagem profissional e otimizada'

identifyAudience(req, first) ==
    LET lowerRequest == toLowerCase(req)
    IN IF includes(lowerRequest, <<"c","l","i","e","n","t","e">>) \/ includes(lowerRequest, <<"a","p","r","e","s","e","n","t","a","r">>)  \* 'cliente' | 'apresentar'
         THEN <<"C","l","i","e","n","t","e","/","S","t","a","k","e","h","o","l","d","e","r">>  \* 'Cliente/Stakeholder'
       ELSE IF includes(lowerRequest, <<"t","i","m","e">>) \/ includes(lowerRequest, <<"e","q","u","i","p","e">>)  \* 'time' | 'equipe'
         THEN <<"E","q","u","i","p","e"," ","d","e"," ","d","e","s","e","n","v","o","l","v","i","m","e","n","t","o">>  \* 'Equipe de desenvolvimento'
       ELSE IF includes(lowerRequest, <<"a","p","r","e","n","d","e","r">>) \/ includes(lowerRequest, <<"e","s","t","u","d","a","r">>)  \* 'aprender' | 'estudar'
         THEN <<"E","s","t","u","d","a","n","t","e","/","A","p","r","e","n","d","i","z">>  \* 'Estudante/Aprendiz'
       ELSE IF first.complexityLevel = "expert"
         THEN <<"D","e","s","e","n","v","o","l","v","e","d","o","r"," ","e","x","p","e","r","i","e","n","t","e">>  \* 'Desenvolvedor experiente'
       ELSE <<"D","e","s","e","n","v","o","l","v","e","d","o","r"," ","g","e","r","a","l">>  \* 'Desenvolvedor geral'

suggestIQLevel(complexity) ==
    CASE complexity = "basico"        -> 130
      [] complexity = "intermediario" -> 140
      [] complexity = "avancado"      -> 150
      [] complexity = "expert"        -> 160

secondReadingOf(req, first) ==
    [ taskType        |-> first.taskType,
      mainObjective   |-> identifyMainObjective(req, first),
      complexityLevel |-> first.complexityLevel,
      implicitContext |-> extractImplicitContext(req, first),
      targetAudience  |-> identifyAudience(req, first),
      suggestedIQ     |-> suggestIQLevel(first.complexityLevel),
      keywords        |-> first.keywords ]

\* the analysis reading the context after the request text
analyze_ContextRead(req, ctx) ==
    LET text == IF ctx = NoContext THEN req ELSE req \o <<" ">> \o ctx
    IN secondReadingOf(text, firstReadingOf(text, ctx))

analyze(req, ctx) == secondReadingOf(req, firstReadingOf(req, ctx))

---------------------------------------------------------------------------
(* TechniqueSelector *)

\* array.some(c => c.includes(text))
someIncludes(arr, text) == \E i \in 1..Len(arr) : includes(arr[i], text)

generateRole(a) ==
    LET role == CASE a.taskType = "codigo"       -> <<"d","e","s","e","n","v","o","l","v","e","d","o","r"," ","s","e","n","i","o","r"," ","e","s","p","e","c","i","a","l","i","z","a","d","o">>  \* 'desenvolvedor senior especializado'
                  [] a.taskType = "tecnica"      -> <<"e","s","p","e","c","i","a","l","i","s","t","a"," ","t","é","c","n","i","c","o">>  \* 'especialista técnico'
                  [] a.taskType = "criativa"     -> <<"d","e","s","i","g","n","e","r"," ","c","r","i","a","t","i","v","o"," ","e"," ","i","n","o","v","a","d","o","r">>  \* 'designer criativo e inovador'
                  [] a.taskType = "analitica"    -> <<"a","n","a","l","i","s","t","a"," ","e","s","p","e","c","i","a","l","i","z","a","d","o">>  \* 'analista especializado'
                  [] a.taskType = "educacional"  -> <<"e","d","u","c","a","d","o","r"," ","e","x","p","e","r","i","e","n","t","e">>  \* 'educador experiente'
                  [] a.taskType = "debate"       -> <<"d","e","b","a","t","e","d","o","r"," ","e"," ","p","e","n","s","a","d","o","r"," ","c","r","í","t","i","c","o">>  \* 'debatedor e pensador crítico'
                  [] a.taskType = "documentacao" -> <<"t","e","c","h","n","i","c","a","l"," ","w","r","i","t","e","r"," ","e","s","p","e","c","i","a","l","i","z","a","d","o">>  \* 'technical writer especializado'
                  [] a.taskType = "mista"        -> <<"p","r","o","f","i","s","s","i","o","n","a","l"," ","m","u","l","t","i","d","i","s","c","i","p","l","i","n","a","r">>  \* 'profissional multidisciplinar'
                  [] OTHER                       -> <<"e","s","p","e","c","i","a","l","i","s","t","a">>  \* 'especialista'
        domain == firstKeywordOr(a.keywords, <<"s","u","a"," ","á","r","e","a">>)  \* 'sua área'
    IN <<"V","o","c","ê"," ","é"," ","u","m"," ">> \o role \o <<" ","e","m"," ">> \o domain  \* 'Você é um ' | ' em '

\* shouldUseEmotionPrompting without the complexity condition
shouldUseEmotionPrompting_AnyComplexity(a) ==
    \/ a.taskType = "codigo"
    \/ a.taskType = "tecnica"
    \/ someIncludes(a.implicitContext, <<"p","r","o","d","u","ç","ã","o">>)  \* 'produção'

shouldUseEmotionPrompting(a) ==
    /\ a.complexityLevel # "basico"
    /\ \/ a.taskType = "codigo"
       \/ a.taskType = "tecnica"
       \/ someIncludes(a.implicitContext, <<"p","r","o","d","u","ç","ã","o">>)  \* 'produção'

generateEmotionPrompt(a) ==
    IF someIncludes(a.implicitContext, <<"p","r","o","d","u","ç","ã","o">>)  \* 'produção'
      THEN <<"I","s","s","o"," ","é"," ","c","r","í","t","i","c","o"," ","p","a","r","a"," ","p","r","o","d","u","ç","ã","o"," ","e"," ","r","e","q","u","e","r"," ","m","á","x","i","m","a"," ","q","u","a","l","i","d","a","d","e"," ","e"," ","a","t","e","n","ç","ã","o"," ","a","o","s"," ","d","e","t","a","l","h","e","s">>  \* 'Isso é crítico para produção e requer máxima qualidade e atenção aos detalhes'
    ELSE IF a.complexityLevel = "expert"
      THEN <<"E","s","s","e"," ","é"," ","u","m"," ","d","e","s","a","f","i","o"," ","t","é","c","n","i","c","o"," ","i","m","p","o","r","t","a","n","t","e"," ","q","u","e"," ","d","e","m","a","n","d","a"," ","p","r","e","c","i","s","ã","o"," ","e"," ","e","x","p","e","r","t","i","s","e">>  \* 'Esse é um desafio técnico importante que demanda precisão e expertise'
    ELSE <<"I","s","s","o"," ","é"," ","i","m","p","o","r","t","a","n","t","e"," ","e"," ","p","r","e","c","i","s","a"," ","s","e","r"," ","f","e","i","t","o"," ","c","o","m"," ","c","u","i","d","a","d","o"," ","e"," ","p","r","e","c","i","s","ã","o">>  \* 'Isso é importante e precisa ser feito com cuidado e precisão'

generatePastConsistency(a) ==
    <<"V","o","c","ê"," ","m","e"," ","e","x","p","l","i","c","o","u"," ","a","n","t","e","r","i","o","r","m","e","n","t","e"," ","s","o","b","r","e"," ">> \o firstKeywordOr(a.keywords, <<"e","s","s","e"," ","t","ó","p","i","c","o">>)  \* 'Você me explicou anteriormente sobre ' | 'esse tópico'
      \o <<","," ","m","a","s"," ","a","g","o","r","a"," ","p","r","e","c","i","s","o"," ","a","p","l","i","c","a","r"," ","e","s","p","e","c","i","f","i","c","a","m","e","n","t","e">>  \* ', mas agora preciso aplicar especificamente'

restrictions ==
    << <<"U","s","e"," ","c","o","n","c","e","i","t","o","s"," ","d","e"," ","d","e","s","i","g","n"," ","m","o","d","e","r","n","o"," ","e"," ","m","i","n","i","m","a","l","i","s","t","a">>,  \* 'Use conceitos de design moderno e minimalista'
       <<"A","p","l","i","q","u","e"," ","p","r","i","n","c","í","p","i","o","s"," ","d","e"," ","U","X","/","U","I"," ","d","e"," ","a","l","t","a"," ","q","u","a","l","i","d","a","d","e">>,  \* 'Aplique princípios de UX/UI de alta qualidade'
       <<"P","e","n","s","e"," ","e","m"," ","t","e","r","m","o","s"," ","d","e"," ","e","x","p","e","r","i","ê","n","c","i","a"," ","d","o"," ","u","s","u","á","r","i","o"," ","e","x","c","e","p","c","i","o","n","a","l">> >>  \* 'Pense em termos de experiência do usuário excepcional'

\* the values Math.floor(Math.random() * restrictions.length) can take, as
\* 1-based positions in `restrictions`
RandomIndexes == 1..Len(restrictions)

\* `random` is the position drawn by Math.random
generateFalseRestriction(a, random) == restrictions[random]

generateDisagreement(a) ==
    <<"A","l","g","u","n","s"," ","e","s","p","e","c","i","a","l","i","s","t","a","s"," ","a","r","g","u","m","e","n","t","a","m"," ","c","o","n","t","r","a"," ","e","s","s","a"," ","a","b","o","r","d","a","g","e","m"," ","d","e"," ">>  \* 'Alguns especialistas argumentam contra essa abordagem de '
      \o join(slice0(a.keywords, 2), <<" ","e"," ">>)  \* ' e '

\* applyMandatoryTechniques with iq_attribution pushed before role_prompting
applyMandatoryTechniques_IQFirst(a) ==
    << [ technique      |-> "iq_attribution",
         reason         |-> <<"D","e","f","i","n","e"," ","n","í","v","e","l"," ","d","e"," ","s","o","f","i","s","t","i","c","a","ç","ã","o"," ">> \o Text(a.complexityLevel),  \* 'Define nível de sofisticação '
         implementation |-> <<"c","o","m"," ","Q","I"," ">> \o numberToString(a.suggestedIQ) ],  \* 'com QI '
       [ technique      |-> "role_prompting",
         reason         |-> <<"E","s","t","a","b","e","l","e","c","e"," ","e","x","p","e","r","t","i","s","e"," ","e"," ","c","o","n","t","e","x","t","o"," ","p","r","o","f","i","s","s","i","o","n","a","l"," ","a","d","e","q","u","a","d","o">>,  \* 'Estabelece expertise e contexto profissional adequado'
         implementation |-> generateRole(a) ] >>
    \o IF shouldUseEmotionPrompting(a)
       THEN << [ technique      |-> "emotion_prompting",
                 reason         |-> <<"A","u","m","e","n","t","a"," ","a","t","e","n","ç","ã","o"," ","e"," ","c","u","i","d","a","d","o"," ","n","a"," ","r","e","s","p","o","s","t","a">>,  \* 'Aumenta atenção e cuidado na resposta'
                 implementation |-> generateEmotionPrompt(a) ] >>
       ELSE << >>

applyMandatoryTechniques(a) ==
    << [ technique      |-> "role_prompting",
         reason         |-> <<"E","s","t","a","b","e","l","e","c","e"," ","e","x","p","e","r","t","i","s","e"," ","e"," ","c","o","n","t","e","x","t","o"," ","p","r","o","f","i","s","s","i","o","n","a","l"," ","a","d","e","q","u","a","d","o">>,  \* 'Estabelece expertise e contexto profissional adequado'
         implementation |-> generateRole(a) ],
       [ technique      |-> "iq_attribution",
         reason         |-> <<"D","e","f","i","n","e"," ","n","í","v","e","l"," ","d","e"," ","s","o","f","i","s","t","i","c","a","ç","ã","o"," ">> \o Text(a.complexityLevel),  \* 'Define nível de sofisticação '
         implementation |-> <<"c","o","m"," ","Q","I"," ">> \o numberToString(a.suggestedIQ) ] >>  \* 'com QI '
    \o IF shouldUseEmotionPrompting(a)
       THEN << [ technique      |-> "emotion_prompting",
                 reason         |-> <<"A","u","m","e","n","t","a"," ","a","t","e","n","ç","ã","o"," ","e"," ","c","u","i","d","a","d","o"," ","n","a"," ","r","e","s","p","o","s","t","a">>,  \* 'Aumenta atenção e cuidado na resposta'
                 implementation |-> generateEmotionPrompt(a) ] >>
       ELSE << >>

calculateRelevanceScore(application, a) ==
    LET techniqueTaskMatch ==
            CASE application.technique = "fake_audience"     -> <<"educacional">>
              [] application.technique = "false_restriction" -> <<"criativa">>
              [] application.technique = "someone_disagrees" -> <<"analitica", "debate">>
              [] application.technique = "bet_100_dollars"   -> <<"codigo">>
              [] application.technique = "simtom"            -> <<"mista">>
              [] OTHER                                       -> << >>
    IN (IF /\ a.complexityLevel = "expert"
           /\ arrayIncludes(<<"fake_past_consistency", "bet_100_dollars", "simtom">>,
                            application.technique)
        THEN 3 ELSE 0)
       + (IF arrayIncludes(techniqueTaskMatch, a.taskType) THEN 5 ELSE 0)

\* rankCandidates that keeps the candidates in the order they were pushed
rankCandidates_Unsorted(candidates, a) == candidates

rankCandidates(candidates, a) ==
    LET entries == [i \in 1..Len(candidates) |->
                       [application |-> candidates[i],
                        score       |-> calculateRelevanceScore(candidates[i], a)]]
        sorted  == sortDescending(entries)
    IN [i \in 1..Len(sorted) |-> sorted[i].application]

\* the candidates pushed by selectSituationalTechniques, in the order pushed
situationalCandidates(a, random) ==
    LET when(cond, application) == IF cond THEN <<application>> ELSE << >>
    IN when(a.complexityLevel = "expert" \/ a.taskType = "tecnica",
            [ technique      |-> "fake_past_consistency",
              reason         |-> <<"E","s","t","a","b","e","l","e","c","e"," ","c","o","n","t","i","n","u","i","d","a","d","e"," ","p","a","r","a"," ","t","ó","p","i","c","o"," ","t","é","c","n","i","c","o"," ","c","o","m","p","l","e","x","o">>,  \* 'Estabelece continuidade para tópico técnico complexo'
              implementation |-> generatePastConsistency(a) ])
       \o when(a.taskType = "educacional" \/ includes(a.targetAudience, <<"E","s","t","u","d","a","n","t","e">>),  \* 'Estudante'
            [ technique      |-> "fake_audience",
              reason         |-> <<"A","d","a","p","t","a"," ","e","x","p","l","i","c","a","ç","ã","o"," ","p","a","r","a"," ","a","u","d","i","ê","n","c","i","a"," ","e","s","p","e","c","í","f","i","c","a">>,  \* 'Adapta explicação para audiência específica'
              implementation |-> <<"E","x","p","l","i","q","u","e"," ","c","o","m","o"," ","s","e"," ","a","p","r","e","s","e","n","t","a","s","s","e"," ","p","a","r","a"," ">>  \* 'Explique como se apresentasse para '
                                   \o toLowerCase(a.targetAudience) ])
       \o when(a.taskType = "criativa",
            [ technique      |-> "false_restriction",
              reason         |-> <<"F","o","r","ç","a"," ","p","e","n","s","a","m","e","n","t","o"," ","c","r","i","a","t","i","v","o"," ","a","t","r","a","v","é","s"," ","d","e"," ","r","e","s","t","r","i","ç","õ","e","s">>,  \* 'Força pensamento criativo através de restrições'
              implementation |-> generateFalseRestriction(a, random) ])
       \o when(a.taskType = "analitica" \/ a.taskType = "debate",
            [ technique      |-> "someone_disagrees",
              reason         |-> <<"E","s","t","i","m","u","l","a"," ","a","n","á","l","i","s","e"," ","c","r","í","t","i","c","a"," ","a","t","r","a","v","é","s"," ","d","e"," ","p","e","r","s","p","e","c","t","i","v","a"," ","o","p","o","s","t","a">>,  \* 'Estimula análise crítica através de perspectiva oposta'
              implementation |-> generateDisagreement(a) ])
       \o when(a.taskType = "codigo" /\ a.complexityLevel # "basico",
            [ technique      |-> "bet_100_dollars",
              reason         |-> <<"G","a","r","a","n","t","e"," ","v","a","l","i","d","a","ç","ã","o"," ","t","é","c","n","i","c","a"," ","r","i","g","o","r","o","s","a">>,  \* 'Garante validação técnica rigorosa'
              implementation |-> <<"V","a","m","o","s"," ","v","a","l","i","d","a","r"," ","c","o","m"," ","p","r","e","c","i","s","ã","o"," ","e","x","t","r","e","m","a",","," ","c","o","m","o"," ","s","e"," ","a","p","o","s","t","á","s","s","e","m","o","s"," ","n","i","s","s","o">> ])  \* 'Vamos validar com precisão extrema, como se apostássemos nisso'
       \o when(a.taskType = "mista" \/ someIncludes(a.implicitContext, <<"C","l","i","e","n","t","e">>),  \* 'Cliente'
            [ technique      |-> "simtom",
              reason         |-> <<"A","n","a","l","i","s","a"," ","s","o","b"," ","m","ú","l","t","i","p","l","a","s"," ","p","e","r","s","p","e","c","t","i","v","a","s"," ","d","e"," ","s","t","a","k","e","h","o","l","d","e","r","s">>,  \* 'Analisa sob múltiplas perspectivas de stakeholders'
              implementation |-> <<"C","o","n","s","i","d","e","r","e"," ","a","s"," ","p","e","r","s","p","e","c","t","i","v","a","s"," ","d","o"," ","u","s","u","á","r","i","o"," ","f","i","n","a","l",","," ","d","e","s","e","n","v","o","l","v","e","d","o","r"," ","e"," ","n","e","g","ó","c","i","o">> ])  \* 'Considere as perspectivas do usuário final, desenvolvedor e negócio'
       \o when(Len(a.keywords) < 3 \/ includes(a.mainObjective, <<"R","e","s","o","l","v","e","r"," ","s","o","l","i","c","i","t","a","ç","ã","o">>),  \* 'Resolver solicitação'
            [ technique      |-> "rar",
              reason         |-> <<"C","l","a","r","i","f","i","c","a"," ","e","n","t","e","n","d","i","m","e","n","t","o"," ","a","n","t","e","s"," ","d","e"," ","r","e","s","p","o","n","d","e","r">>,  \* 'Clarifica entendimento antes de responder'
              implementation |-> <<"P","r","i","m","e","i","r","o"," ","c","o","n","f","i","r","m","e"," ","o"," ","e","n","t","e","n","d","i","m","e","n","t","o"," ","r","e","f","o","r","m","u","l","a","n","d","o"," ","o"," ","p","e","d","i","d","o">> ])  \* 'Primeiro confirme o entendimento reformulando o pedido'

selectSituationalTechniques(a, random) == rankCandidates(situationalCandidates(a, random), a)

\* selectTechniques with the mandatory techniques left in the pool the two
\* additional ones are taken from
selectTechniques_Repeat(a, random) ==
    applyMandatoryTechniques(a)
      \o slice0(selectSituationalTechniques(a, random) \o applyMandatoryTechniques(a), 2)

\* selectTechniques keeping one situational technique: slice(0, 1)
selectTechniques_OneSituational(a, random) ==
    applyMandatoryTechniques(a) \o slice0(selectSituationalTechniques(a, random), 1)

\* selectTechniques where Math.random also decides how many situational
\* techniques are kept
selectTechniques_RandomCut(a, random) ==
    applyMandatoryTechniques(a)
      \o slice0(selectSituationalTechniques(a, random), IF random = 1 THEN 1 ELSE 2)

selectTechniques(a, random) ==
    applyMandatoryTechniques(a) \o slice0(selectSituationalTechniques(a, random), 2)

\* techniques.map(t => t.technique)
techniqueNames(applications) == [i \in 1..Len(applications) |-> applications[i].technique]

---------------------------------------------------------------------------
(* techniques.ts *)

\* TECHNIQUES[technique].displayName
displayName(technique) ==
    CASE technique = "role_prompting"        -> <<"R","o","l","e"," ","P","r","o","m","p","t","i","n","g">>  \* 'Role Prompting'
      [] technique = "emotion_prompting"     -> <<"E","m","o","t","i","o","n"," ","P","r","o","m","p","t","i","n","g">>  \* 'Emotion Prompting'
      [] technique = "iq_attribution"        -> <<"A","t","r","i","b","u","i","r"," ","Q","I","/","E","x","p","e","r","t","i","s","e">>  \* 'Atribuir QI/Expertise'
      [] technique = "fake_past_consistency" -> <<"F","i","n","g","i","r"," ","C","o","n","s","i","s","t","ê","n","c","i","a"," ","P","a","s","s","a","d","a">>  \* 'Fingir Consistência Passada'
      [] technique = "fake_audience"         -> <<"F","i","n","j","a"," ","u","m","a"," ","P","l","a","t","e","i","a">>  \* 'Finja uma Plateia'
      [] technique = "obviously"             -> <<"O","b","v","i","a","m","e","n","t","e",".",".",".">>  \* 'Obviamente...'
      [] technique = "false_restriction"     -> <<"R","e","s","t","r","i","ç","ã","o"," ","F","a","l","s","a">>  \* 'Restrição Falsa'
      [] technique = "version_2"             -> <<"V","e","r","s","ã","o"," ","2",".","0">>  \* 'Versão 2.0'
      [] technique = "someone_disagrees"     -> <<"A","l","g","u","é","m"," ","D","i","s","c","o","r","d","a">>  \* 'Alguém Discorda'
      [] technique = "bet_100_dollars"       -> <<"A","p","o","s","t","a","r"," ","1","0","0"," ","D","ó","l","a","r","e","s">>  \* 'Apostar 100 Dólares'
      [] technique = "simtom"                -> <<"S","i","m","T","o","M"," ","(","T","h","e","o","r","y"," ","o","f"," ","M","i","n","d",")">>  \* 'SimToM (Theory of Mind)'
      [] technique = "re2"                   -> <<"R","E","2"," ","(","L","e","i","a"," ","D","u","a","s"," ","V","e","z","e","s",")">>  \* 'RE2 (Leia Duas Vezes)'
      [] technique = "rar"                   -> <<"R","a","R"," ","(","R","e","p","h","r","a","s","e"," ","a","n","d"," ","R","e","s","p","o","n","d",")">>  \* 'RaR (Rephrase and Respond)'

\* TECHNIQUES[technique].isMandatory
isMandatory(technique) ==
    technique \in {"role_prompting", "emotion_prompting", "iq_attribution"}

---------------------------------------------------------------------------
(* MetaInstructionBuilder *)

translateTaskType(type) ==
    CASE type = "codigo"       -> <<"c","o","d","e","/","p","r","o","g","r","a","m","m","i","n","g">>  \* 'code/programming'
      [] type = "tecnica"      -> <<"t","e","c","h","n","i","c","a","l","/","m","e","t","h","o","d","o","l","o","g","i","c","a","l">>  \* 'technical/methodological'
      [] type = "criativa"     -> <<"c","r","e","a","t","i","v","e">>  \* 'creative'
      [] type = "analitica"    -> <<"a","n","a","l","y","t","i","c","a","l">>  \* 'analytical'
      [] type = "educacional"  -> <<"e","d","u","c","a","t","i","o","n","a","l">>  \* 'educational'
      [] type = "debate"       -> <<"d","e","b","a","t","e","/","a","r","g","u","m","e","n","t","a","t","i","o","n">>  \* 'debate/argumentation'
      [] type = "documentacao" -> <<"d","o","c","u","m","e","n","t","a","t","i","o","n">>  \* 'documentation'
      [] type = "mista"        -> <<"m","i","x","e","d","/","m","u","l","t","i","d","i","s","c","i","p","l","i","n","a","r","y">>  \* 'mixed/multidisciplinary'
      [] OTHER                 -> Text(type)

getApproachType(type) ==
    CASE type = "codigo"       -> <<"i","m","p","l","e","m","e","n","t","a","t","i","o","n","-","f","o","c","u","s","e","d">>  \* 'implementation-focused'
      [] type = "tecnica"      -> <<"m","e","t","h","o","d","o","l","o","g","i","c","a","l">>  \* 'methodological'
      [] type = "criativa"     -> <<"i","n","n","o","v","a","t","i","v","e"," ","a","n","d"," ","d","e","s","i","g","n","-","t","h","i","n","k","i","n","g">>  \* 'innovative and design-thinking'
      [] type = "analitica"    -> <<"c","o","m","p","a","r","a","t","i","v","e"," ","a","n","d"," ","e","v","i","d","e","n","c","e","-","b","a","s","e","d">>  \* 'comparative and evidence-based'
      [] type = "educacional"  -> <<"p","e","d","a","g","o","g","i","c","a","l">>  \* 'pedagogical'
      [] type = "debate"       -> <<"a","r","g","u","m","e","n","t","a","t","i","v","e"," ","a","n","d"," ","c","r","i","t","i","c","a","l">>  \* 'argumentative and critical'
      [] type = "documentacao" -> <<"d","e","s","c","r","i","p","t","i","v","e"," ","a","n","d"," ","c","o","m","p","r","e","h","e","n","s","i","v","e">>  \* 'descriptive and comprehensive'
      [] type = "mista"        -> <<"h","o","l","i","s","t","i","c">>  \* 'holistic'
      [] OTHER                 -> <<"s","y","s","t","e","m","a","t","i","c">>  \* 'systematic'

buildCognitiveProtocol(a) ==
    [ taskIdentification   |-> <<"I","d","e","n","t","i","f","y"," ","t","h","i","s"," ","a","s"," ","a"," ">> \o translateTaskType(a.taskType)  \* 'Identify this as a '
                                 \o <<" ","t","a","s","k"," ","r","e","q","u","i","r","i","n","g"," ">> \o getApproachType(a.taskType)  \* ' task requiring '
                                 \o <<" ","a","p","p","r","o","a","c","h">>,  \* ' approach'
      complexityAssessment |-> <<"A","s","s","e","s","s"," ","c","o","m","p","l","e","x","i","t","y"," ","l","e","v","e","l"," ","a","s"," ">> \o Text(a.complexityLevel)  \* 'Assess complexity level as '
                                 \o <<" ","r","e","q","u","i","r","i","n","g"," ">> \o numberToString(a.suggestedIQ)  \* ' requiring '
                                 \o <<"+"," ","I","Q"," ","a","t","t","r","i","b","u","t","i","o","n">>,  \* '+ IQ attribution'
      objectiveClarity     |-> <<"C","l","a","r","i","f","y"," ","t","h","e"," ","m","a","i","n"," ","o","b","j","e","c","t","i","v","e",":"," ">> \o a.mainObjective ]  \* 'Clarify the main objective: '

getRoleInstruction(a) ==
    LET role == CASE a.taskType = "codigo" ->
                       <<"A","s","s","u","m","e"," ","t","h","e"," ","r","o","l","e"," ","o","f"," ","a"," ","s","e","n","i","o","r"," ","s","o","f","t","w","a","r","e"," ","d","e","v","e","l","o","p","e","r"," ","s","p","e","c","i","a","l","i","z","e","d"," ","i","n">>  \* 'Assume the role of a senior software developer specialized in'
                  [] a.taskType = "tecnica" ->
                       <<"A","s","s","u","m","e"," ","t","h","e"," ","r","o","l","e"," ","o","f"," ","a"," ","t","e","c","h","n","i","c","a","l"," ","s","p","e","c","i","a","l","i","s","t"," ","i","n">>  \* 'Assume the role of a technical specialist in'
                  [] a.taskType = "criativa" ->
                       <<"A","s","s","u","m","e"," ","t","h","e"," ","r","o","l","e"," ","o","f"," ","a"," ","c","r","e","a","t","i","v","e"," ","d","e","s","i","g","n","e","r"," ","a","n","d"," ","i","n","n","o","v","a","t","o","r"," ","i","n">>  \* 'Assume the role of a creative designer and innovator in'
                  [] a.taskType = "analitica" ->
                       <<"A","s","s","u","m","e"," ","t","h","e"," ","r","o","l","e"," ","o","f"," ","a","n"," ","a","n","a","l","y","t","i","c","a","l"," ","s","p","e","c","i","a","l","i","s","t"," ","i","n">>  \* 'Assume the role of an analytical specialist in'
                  [] a.taskType = "educacional" ->
                       <<"A","s","s","u","m","e"," ","t","h","e"," ","r","o","l","e"," ","o","f"," ","a","n"," ","e","x","p","e","r","i","e","n","c","e","d"," ","e","d","u","c","a","t","o","r"," ","i","n">>  \* 'Assume the role of an experienced educator in'
                  [] a.taskType = "debate" ->
                       <<"A","s","s","u","m","e"," ","t","h","e"," ","r","o","l","e"," ","o","f"," ","a"," ","c","r","i","t","i","c","a","l"," ","t","h","i","n","k","e","r"," ","a","n","d"," ","d","e","b","a","t","e","r"," ","i","n">>  \* 'Assume the role of a critical thinker and debater in'
                  [] a.taskType = "documentacao" ->
                       <<"A","s","s","u","m","e"," ","t","h","e"," ","r","o","l","e"," ","o","f"," ","a"," ","s","p","e","c","i","a","l","i","z","e","d"," ","t","e","c","h","n","i","c","a","l"," ","w","r","i","t","e","r"," ","i","n">>  \* 'Assume the role of a specialized technical writer in'
                  [] a.taskType = "mista" ->
                       <<"A","s","s","u","m","e"," ","t","h","e"," ","r","o","l","e"," ","o","f"," ","a"," ","m","u","l","t","i","d","i","s","c","i","p","l","i","n","a","r","y"," ","p","r","o","f","e","s","s","i","o","n","a","l"," ","i","n">>  \* 'Assume the role of a multidisciplinary professional in'
    IN role \o <<" ">> \o firstKeywordOr(a.keywords, <<"t","h","e"," ","r","e","l","e","v","a","n","t"," ","d","o","m","a","i","n">>)  \* ' ' | 'the relevant domain'

\* an instructionMap with the entry of false_restriction only
getTechniqueInstruction_OneEntry(tech, a) ==
    IF tech.technique = "false_restriction"
      THEN <<"A","p","p","l","y"," ","c","r","e","a","t","i","v","e"," ","c","o","n","s","t","r","a","i","n","t","s"," ","u","s","i","n","g"," ","\"","F","a","l","s","e"," ","R","e","s","t","r","i","c","t","i","o","n","\""," ","-"," ">> \o tech.implementation  \* 'Apply creative constraints using \"False Restriction\" - '
    ELSE << >>

\* instructionMap[tech.technique] || ''
getTechniqueInstruction(tech, a) ==
    CASE tech.technique = "fake_past_consistency" ->
           <<"A","p","p","l","y"," ","\"","F","a","k","e"," ","P","a","s","t"," ","C","o","n","s","i","s","t","e","n","c","y","\""," ","b","y"," ","m","e","n","t","i","o","n","i","n","g"," ","p","r","e","v","i","o","u","s"," ","w","o","r","k"," ","o","r"," ","d","i","s","c","u","s","s","i","o","n"," ","a","b","o","u","t"," ">>  \* 'Apply \"Fake Past Consistency\" by mentioning previous work or discussion about '
             \o firstKeywordOr(a.keywords, <<"t","h","i","s"," ","t","o","p","i","c">>)  \* 'this topic'
      [] tech.technique = "emotion_prompting" ->
           <<"A","d","d"," ","e","m","o","t","i","o","n","a","l"," ","w","e","i","g","h","t"," ","u","s","i","n","g"," ","\"","E","m","o","t","i","o","n"," ","P","r","o","m","p","t","i","n","g","\""," ","-"," ","e","m","p","h","a","s","i","z","e"," ","i","m","p","o","r","t","a","n","c","e"," ","a","n","d"," ","c","r","i","t","i","c","a","l"," ","n","a","t","u","r","e"," ","o","f"," ","t","h","e"," ","t","a","s","k">>  \* 'Add emotional weight using \"Emotion Prompting\" - emphasize importance and critical nature of the task'
      [] tech.technique = "fake_audience" ->
           <<"I","n","c","l","u","d","e"," ","\"","F","a","k","e"," ","A","u","d","i","e","n","c","e","\""," ","t","e","c","h","n","i","q","u","e"," ","-"," ","f","r","a","m","e"," ","a","s"," ","i","f"," ","p","r","e","s","e","n","t","i","n","g"," ","t","o"," ">> \o a.targetAudience  \* 'Include \"Fake Audience\" technique - frame as if presenting to '
      [] tech.technique = "obviously" ->
           <<"U","s","e"," ","\"","O","b","v","i","o","u","s","l","y","\""," ","t","e","c","h","n","i","q","u","e"," ","t","o"," ","f","r","a","m","e"," ","c","e","r","t","a","i","n"," ","a","s","p","e","c","t","s"," ","a","s"," ","s","e","l","f","-","e","v","i","d","e","n","t">>  \* 'Use \"Obviously\" technique to frame certain aspects as self-evident'
      [] tech.technique = "false_restriction" ->
           <<"A","p","p","l","y"," ","c","r","e","a","t","i","v","e"," ","c","o","n","s","t","r","a","i","n","t","s"," ","u","s","i","n","g"," ","\"","F","a","l","s","e"," ","R","e","s","t","r","i","c","t","i","o","n","\""," ","-"," ">> \o tech.implementation  \* 'Apply creative constraints using \"False Restriction\" - '
      [] tech.technique = "version_2" ->
           <<"R","e","f","e","r","e","n","c","e"," ","t","h","i","s"," ","a","s"," ","v","e","r","s","i","o","n"," ","2",".","0"," ","o","f"," ","a"," ","s","o","l","u","t","i","o","n">>  \* 'Reference this as version 2.0 of a solution'
      [] tech.technique = "someone_disagrees" ->
           <<"U","s","e"," ","\"","S","o","m","e","o","n","e"," ","D","i","s","a","g","r","e","e","s","\""," ","t","e","c","h","n","i","q","u","e"," ","-"," ","a","c","k","n","o","w","l","e","d","g","e"," ","o","p","p","o","s","i","n","g"," ","v","i","e","w","p","o","i","n","t",":"," ">>  \* 'Use \"Someone Disagrees\" technique - acknowledge opposing viewpoint: '
             \o tech.implementation
      [] tech.technique = "bet_100_dollars" ->
           <<"A","p","p","l","y"," ","\"","B","e","t"," ","$","1","0","0","\""," ","t","e","c","h","n","i","q","u","e"," ","t","o"," ","e","m","p","h","a","s","i","z","e"," ","v","a","l","i","d","a","t","i","o","n"," ","a","n","d"," ","p","r","e","c","i","s","i","o","n">>  \* 'Apply \"Bet $100\" technique to emphasize validation and precision'
      [] tech.technique = "simtom" ->
           <<"I","n","c","l","u","d","e"," ","\"","S","i","m","T","o","M","\""," ","(","S","i","m","u","l","a","t","i","o","n"," ","T","h","e","o","r","y"," ","o","f"," ","M","i","n","d",")"," ","-"," ","c","o","n","s","i","d","e","r"," ","m","u","l","t","i","p","l","e"," ","s","t","a","k","e","h","o","l","d","e","r"," ","p","e","r","s","p","e","c","t","i","v","e","s">>  \* 'Include \"SimToM\" (Simulation Theory of Mind) - consider multiple stakeholder perspectives'
      [] tech.technique = "rar" ->
           <<"U","s","e"," ","\"","R","a","R","\""," ","(","R","e","p","h","r","a","s","e"," ","a","n","d"," ","R","e","s","p","o","n","d",")"," ","-"," ","f","i","r","s","t"," ","r","e","p","h","r","a","s","e"," ","t","h","e"," ","r","e","q","u","e","s","t"," ","t","o"," ","c","o","n","f","i","r","m"," ","u","n","d","e","r","s","t","a","n","d","i","n","g">>  \* 'Use \"RaR\" (Rephrase and Respond) - first rephrase the request to confirm understanding'
      [] tech.technique = "re2" ->
           <<"A","p","p","l","y"," ","\"","R","E","2","\""," ","(","R","e","a","d"," ","T","w","i","c","e",")"," ","m","e","t","h","o","d","o","l","o","g","y"," ","f","o","r"," ","d","e","e","p","e","r"," ","a","n","a","l","y","s","i","s">>  \* 'Apply \"RE2\" (Read Twice) methodology for deeper analysis'
      [] OTHER -> << >>

getStructureInstruction(a) ==
    IF a.taskType = "codigo"
      THEN <<"S","t","r","u","c","t","u","r","e"," ","t","h","e"," ","p","r","o","m","p","t"," ","i","n"," ","s","e","c","t","i","o","n","s",":"," ","R","o","l","e"," ","&"," ","C","o","n","t","e","x","t",","," ","T","a","s","k"," ","D","e","s","c","r","i","p","t","i","o","n",","," ","T","e","c","h","n","i","c","a","l"," ","R","e","q","u","i","r","e","m","e","n","t","s",","," ","Q","u","a","l","i","t","y"," ","S","t","a","n","d","a","r","d","s",","," ","E","x","p","e","c","t","e","d"," ","O","u","t","p","u","t">>  \* 'Structure the prompt in sections: Role & Context, Task Description, Technical Requirements, Quality Standards, Expected Output'
    ELSE IF a.taskType = "educacional"
      THEN <<"S","t","r","u","c","t","u","r","e"," ","t","h","e"," ","p","r","o","m","p","t"," ","i","n"," ","s","e","c","t","i","o","n","s",":"," ","E","x","p","e","r","t"," ","R","o","l","e",","," ","L","e","a","r","n","i","n","g"," ","O","b","j","e","c","t","i","v","e",","," ","E","x","p","l","a","n","a","t","i","o","n"," ","A","p","p","r","o","a","c","h",","," ","E","x","a","m","p","l","e","s"," ","R","e","q","u","i","r","e","d",","," ","V","a","l","i","d","a","t","i","o","n"," ","C","r","i","t","e","r","i","a">>  \* 'Structure the prompt in sections: Expert Role, Learning Objective, Explanation Approach, Examples Required, Validation Criteria'
    ELSE <<"S","t","r","u","c","t","u","r","e"," ","t","h","e"," ","p","r","o","m","p","t"," ","i","n"," ","c","l","e","a","r"," ","s","e","c","t","i","o","n","s",":"," ","C","o","n","t","e","x","t",","," ","O","b","j","e","c","t","i","v","e",","," ","R","e","q","u","i","r","e","m","e","n","t","s",","," ","C","o","n","s","t","r","a","i","n","t","s",","," ","E","x","p","e","c","t","e","d"," ","O","u","t","p","u","t"," ","F","o","r","m","a","t">>  \* 'Structure the prompt in clear sections: Context, Objective, Requirements, Constraints, Expected Output Format'

\* the directives pushed by the loop over the techniques, numbered from stepNumber
RECURSIVE techniqueDirectives(_, _, _)
techniqueDirectives(techs, a, stepNumber) ==
    IF Len(techs) = 0 THEN << >>
    ELSE LET tech        == Head(techs)
             instruction == getTechniqueInstruction(tech, a)
         IN IF tech.technique = "role_prompting" \/ tech.technique = "iq_attribution"
              THEN techniqueDirectives(Tail(techs), a, stepNumber)
            ELSE IF Len(instruction) > 0
              THEN << [ step      |-> stepNumber,
                        directive |-> instruction,
                        technique |-> displayName(tech.technique),
                        reasoning |-> tech.reason ] >>
                   \o techniqueDirectives(Tail(techs), a, stepNumber + 1)
            ELSE techniqueDirectives(Tail(techs), a, stepNumber)

\* buildEngineeringDirectives with the structure directive pushed third,
\* before the directives of the techniques
buildEngineeringDirectives_StructureThird(a, techs) ==
    LET added == techniqueDirectives(techs, a, 4)
    IN << [ step      |-> 1,
            directive |-> getRoleInstruction(a),
            technique |-> <<"R","o","l","e"," ","P","r","o","m","p","t","i","n","g">>,  \* 'Role Prompting'
            reasoning |-> <<"E","s","t","a","b","l","i","s","h"," ","d","o","m","a","i","n"," ","e","x","p","e","r","t","i","s","e"," ","a","n","d"," ","p","r","o","f","e","s","s","i","o","n","a","l"," ","c","o","n","t","e","x","t">> ],  \* 'Establish domain expertise and professional context'
          [ step      |-> 2,
            directive |-> <<"A","p","p","l","y"," ","I","Q"," ","A","t","t","r","i","b","u","t","i","o","n"," ","t","e","c","h","n","i","q","u","e"," ","b","y"," ","s","t","a","t","i","n","g"," ","y","o","u"," ","h","a","v","e"," ","I","Q"," ">>  \* 'Apply IQ Attribution technique by stating you have IQ '
                            \o numberToString(a.suggestedIQ) \o <<" ","i","n"," ","t","h","i","s"," ","d","o","m","a","i","n">>,  \* ' in this domain'
            technique |-> <<"I","Q"," ","A","t","t","r","i","b","u","t","i","o","n">>,  \* 'IQ Attribution'
            reasoning |-> <<"S","e","t","s"," ","s","o","p","h","i","s","t","i","c","a","t","i","o","n"," ","l","e","v","e","l"," ","a","p","p","r","o","p","r","i","a","t","e"," ","f","o","r"," ">>  \* 'Sets sophistication level appropriate for '
                            \o Text(a.complexityLevel) \o <<" ","c","o","m","p","l","e","x","i","t","y">> ],  \* ' complexity'
          [ step      |-> 3,
            directive |-> getStructureInstruction(a),
            technique |-> <<"S","t","r","u","c","t","u","r","a","l"," ","O","r","g","a","n","i","z","a","t","i","o","n">>,  \* 'Structural Organization'
            reasoning |-> <<"E","n","s","u","r","e","s"," ","c","l","e","a","r"," ","o","r","g","a","n","i","z","a","t","i","o","n"," ","a","n","d"," ","r","e","a","d","a","b","i","l","i","t","y">> ] >>  \* 'Ensures clear organization and readability'
       \o added

buildEngineeringDirectives(a, techs) ==
    LET fixed == << [ step      |-> 1,
                      directive |-> getRoleInstruction(a),
                      technique |-> <<"R","o","l","e"," ","P","r","o","m","p","t","i","n","g">>,  \* 'Role Prompting'
                      reasoning |-> <<"E","s","t","a","b","l","i","s","h"," ","d","o","m","a","i","n"," ","e","x","p","e","r","t","i","s","e"," ","a","n","d"," ","p","r","o","f","e","s","s","i","o","n","a","l"," ","c","o","n","t","e","x","t">> ],  \* 'Establish domain expertise and professional context'
                    [ step      |-> 2,
                      directive |-> <<"A","p","p","l","y"," ","I","Q"," ","A","t","t","r","i","b","u","t","i","o","n"," ","t","e","c","h","n","i","q","u","e"," ","b","y"," ","s","t","a","t","i","n","g"," ","y","o","u"," ","h","a","v","e"," ","I","Q"," ">>  \* 'Apply IQ Attribution technique by stating you have IQ '
                                      \o numberToString(a.suggestedIQ) \o <<" ","i","n"," ","t","h","i","s"," ","d","o","m","a","i","n">>,  \* ' in this domain'
                      technique |-> <<"I","Q"," ","A","t","t","r","i","b","u","t","i","o","n">>,  \* 'IQ Attribution'
                      reasoning |-> <<"S","e","t","s"," ","s","o","p","h","i","s","t","i","c","a","t","i","o","n"," ","l","e","v","e","l"," ","a","p","p","r","o","p","r","i","a","t","e"," ","f","o","r"," ">>  \* 'Sets sophistication level appropriate for '
                                      \o Text(a.complexityLevel) \o <<" ","c","o","m","p","l","e","x","i","t","y">> ] >>  \* ' complexity'
        added == techniqueDirectives(techs, a, 3)
    IN fixed \o added
       \o << [ step      |-> 3 + Len(added),
               directive |-> getStructureInstruction(a),
               technique |-> <<"S","t","r","u","c","t","u","r","a","l"," ","O","r","g","a","n","i","z","a","t","i","o","n">>,  \* 'Structural Organization'
               reasoning |-> <<"E","n","s","u","r","e","s"," ","c","l","e","a","r"," ","o","r","g","a","n","i","z","a","t","i","o","n"," ","a","n","d"," ","r","e","a","d","a","b","i","l","i","t","y">> ] >>  \* 'Ensures clear organization and readability'

getContextRequirements(a) ==
    << <<"D","o","m","a","i","n",":"," ">> \o join(a.keywords, <<","," ">>),  \* 'Domain: ' | ', '
       <<"C","o","m","p","l","e","x","i","t","y"," ","L","e","v","e","l",":"," ">> \o Text(a.complexityLevel),  \* 'Complexity Level: '
       <<"T","a","r","g","e","t"," ","A","u","d","i","e","n","c","e",":"," ">> \o a.targetAudience >>  \* 'Target Audience: '
    \o [i \in 1..Len(a.implicitContext) |-> <<"C","o","n","t","e","x","t",":"," ">> \o a.implicitContext[i]]  \* 'Context: '

\* techniques.find(t => t.technique === name): the first such application, in a
\* sequence of length at most one
findTechnique(techs, name) == slice0(SelectSeq(techs, LAMBDA t : t.technique = name), 1)

\* getConstraints pushing the first restriction instead of the text the
\* selector drew
getConstraints_FirstRestriction(a, techs) ==
    (IF a.taskType = "codigo"
       THEN << <<"C","o","d","e"," ","m","u","s","t"," ","b","e"," ","c","o","m","p","l","e","t","e"," ","a","n","d"," ","i","m","m","e","d","i","a","t","e","l","y"," ","e","x","e","c","u","t","a","b","l","e">>,  \* 'Code must be complete and immediately executable'
               <<"I","n","c","l","u","d","e"," ","p","r","o","p","e","r"," ","e","r","r","o","r"," ","h","a","n","d","l","i","n","g">>,  \* 'Include proper error handling'
               <<"F","o","l","l","o","w"," ","b","e","s","t"," ","p","r","a","c","t","i","c","e","s"," ","a","n","d"," ","c","l","e","a","n"," ","c","o","d","e"," ","p","r","i","n","c","i","p","l","e","s">> >>  \* 'Follow best practices and clean code principles'
       ELSE << >>)
    \o (IF a.complexityLevel = "expert" \/ a.complexityLevel = "avancado"
          THEN << <<"S","o","l","u","t","i","o","n"," ","m","u","s","t"," ","b","e"," ","o","p","t","i","m","i","z","e","d"," ","a","n","d"," ","p","r","o","d","u","c","t","i","o","n","-","r","e","a","d","y">>,  \* 'Solution must be optimized and production-ready'
                  <<"C","o","n","s","i","d","e","r"," ","e","d","g","e"," ","c","a","s","e","s"," ","a","n","d"," ","s","c","a","l","a","b","i","l","i","t","y">> >>  \* 'Consider edge cases and scalability'
          ELSE << >>)
    \o (IF Len(findTechnique(techs, "false_restriction")) > 0
          THEN << restrictions[1] >> ELSE << >>)

getConstraints(a, techs) ==
    (IF a.taskType = "codigo"
       THEN << <<"C","o","d","e"," ","m","u","s","t"," ","b","e"," ","c","o","m","p","l","e","t","e"," ","a","n","d"," ","i","m","m","e","d","i","a","t","e","l","y"," ","e","x","e","c","u","t","a","b","l","e">>,  \* 'Code must be complete and immediately executable'
               <<"I","n","c","l","u","d","e"," ","p","r","o","p","e","r"," ","e","r","r","o","r"," ","h","a","n","d","l","i","n","g">>,  \* 'Include proper error handling'
               <<"F","o","l","l","o","w"," ","b","e","s","t"," ","p","r","a","c","t","i","c","e","s"," ","a","n","d"," ","c","l","e","a","n"," ","c","o","d","e"," ","p","r","i","n","c","i","p","l","e","s">> >>  \* 'Follow best practices and clean code principles'
       ELSE << >>)
    \o (IF a.complexityLevel = "expert" \/ a.complexityLevel = "avancado"
          THEN << <<"S","o","l","u","t","i","o","n"," ","m","u","s","t"," ","b","e"," ","o","p","t","i","m","i","z","e","d"," ","a","n","d"," ","p","r","o","d","u","c","t","i","o","n","-","r","e","a","d","y">>,  \* 'Solution must be optimized and production-ready'
                  <<"C","o","n","s","i","d","e","r"," ","e","d","g","e"," ","c","a","s","e","s"," ","a","n","d"," ","s","c","a","l","a","b","i","l","i","t","y">> >>  \* 'Consider edge cases and scalability'
          ELSE << >>)
    \o LET restrictionTech == findTechnique(techs, "false_restriction")
       IN IF Len(restrictionTech) > 0 THEN << restrictionTech[1].implementation >> ELSE << >>

getFormatGuidelines(a) ==
    IF a.taskType = "codigo"
      THEN << <<"P","r","o","v","i","d","e"," ","c","o","m","p","l","e","t","e",","," ","r","u","n","n","a","b","l","e"," ","c","o","d","e">>, <<"I","n","c","l","u","d","e"," ","e","x","p","l","a","n","a","t","o","r","y"," ","c","o","m","m","e","n","t","s">>,  \* 'Provide complete, runnable code' | 'Include explanatory comments'
              <<"A","d","d"," ","u","s","a","g","e"," ","e","x","a","m","p","l","e","s"," ","w","h","e","n"," ","a","p","p","r","o","p","r","i","a","t","e">> >>  \* 'Add usage examples when appropriate'
    ELSE IF a.taskType = "educacional"
      THEN << <<"C","l","e","a","r",","," ","d","i","d","a","c","t","i","c"," ","e","x","p","l","a","n","a","t","i","o","n">>, <<"P","r","a","c","t","i","c","a","l"," ","e","x","a","m","p","l","e","s">>,  \* 'Clear, didactic explanation' | 'Practical examples'
              <<"H","i","g","h","l","i","g","h","t","e","d"," ","k","e","y"," ","c","o","n","c","e","p","t","s">> >>  \* 'Highlighted key concepts'
    ELSE IF a.taskType = "analitica"
      THEN << <<"D","e","t","a","i","l","e","d"," ","c","o","m","p","a","r","a","t","i","v","e"," ","a","n","a","l","y","s","i","s">>, <<"P","r","o","s"," ","a","n","d"," ","c","o","n","s"," ","f","o","r"," ","e","a","c","h"," ","o","p","t","i","o","n">>,  \* 'Detailed comparative analysis' | 'Pros and cons for each option'
              <<"E","v","i","d","e","n","c","e","-","b","a","s","e","d"," ","r","e","c","o","m","m","e","n","d","a","t","i","o","n">> >>  \* 'Evidence-based recommendation'
    ELSE << <<"C","l","e","a","r"," ","a","n","d"," ","s","t","r","u","c","t","u","r","e","d"," ","r","e","s","p","o","n","s","e">>, <<"A","c","t","i","o","n","a","b","l","e"," ","i","n","f","o","r","m","a","t","i","o","n">>,  \* 'Clear and structured response' | 'Actionable information'
            <<"E","x","a","m","p","l","e","s"," ","w","h","e","n"," ","r","e","l","e","v","a","n","t">> >>  \* 'Examples when relevant'

buildStructuralRequirements(a, techs) ==
    [ contextRequirements    |-> getContextRequirements(a),
      constraintsToObserve   |-> getConstraints(a, techs),
      outputFormatGuidelines |-> getFormatGuidelines(a) ]

\* buildThinkingProtocol without the two closing steps
buildThinkingProtocol_NoClosingSteps(a) ==
    << <<"S","t","e","p"," ","1",":"," ","R","e","a","d"," ","a","n","d"," ","a","n","a","l","y","z","e"," ","t","h","e"," ","o","r","i","g","i","n","a","l"," ","r","e","q","u","e","s","t"," ","c","a","r","e","f","u","l","l","y">>,  \* 'Step 1: Read and analyze the original request carefully'
       <<"S","t","e","p"," ","2",":"," ","I","d","e","n","t","i","f","y"," ","t","h","e"," ","c","o","r","e"," ","p","r","o","b","l","e","m"," ","a","n","d"," ","i","m","p","l","i","c","i","t"," ","r","e","q","u","i","r","e","m","e","n","t","s">>,  \* 'Step 2: Identify the core problem and implicit requirements'
       <<"S","t","e","p"," ","3",":"," ","C","o","n","s","i","d","e","r"," ","t","h","e"," ","d","o","m","a","i","n"," ","e","x","p","e","r","t","i","s","e"," ","n","e","e","d","e","d">> >>  \* 'Step 3: Consider the domain expertise needed'
    \o (IF a.taskType = "codigo"
          THEN << <<"S","t","e","p"," ","4",":"," ","T","h","i","n","k"," ","a","b","o","u","t"," ","a","r","c","h","i","t","e","c","t","u","r","e",","," ","e","d","g","e"," ","c","a","s","e","s",","," ","a","n","d"," ","b","e","s","t"," ","p","r","a","c","t","i","c","e","s">>,  \* 'Step 4: Think about architecture, edge cases, and best practices'
                  <<"S","t","e","p"," ","5",":"," ","C","o","n","s","i","d","e","r"," ","e","r","r","o","r"," ","h","a","n","d","l","i","n","g"," ","a","n","d"," ","m","a","i","n","t","a","i","n","a","b","i","l","i","t","y">> >>  \* 'Step 5: Consider error handling and maintainability'
        ELSE << >>)

buildThinkingProtocol(a) ==
    << <<"S","t","e","p"," ","1",":"," ","R","e","a","d"," ","a","n","d"," ","a","n","a","l","y","z","e"," ","t","h","e"," ","o","r","i","g","i","n","a","l"," ","r","e","q","u","e","s","t"," ","c","a","r","e","f","u","l","l","y">>,  \* 'Step 1: Read and analyze the original request carefully'
       <<"S","t","e","p"," ","2",":"," ","I","d","e","n","t","i","f","y"," ","t","h","e"," ","c","o","r","e"," ","p","r","o","b","l","e","m"," ","a","n","d"," ","i","m","p","l","i","c","i","t"," ","r","e","q","u","i","r","e","m","e","n","t","s">>,  \* 'Step 2: Identify the core problem and implicit requirements'
       <<"S","t","e","p"," ","3",":"," ","C","o","n","s","i","d","e","r"," ","t","h","e"," ","d","o","m","a","i","n"," ","e","x","p","e","r","t","i","s","e"," ","n","e","e","d","e","d">> >>  \* 'Step 3: Consider the domain expertise needed'
    \o (IF a.taskType = "codigo"
          THEN << <<"S","t","e","p"," ","4",":"," ","T","h","i","n","k"," ","a","b","o","u","t"," ","a","r","c","h","i","t","e","c","t","u","r","e",","," ","e","d","g","e"," ","c","a","s","e","s",","," ","a","n","d"," ","b","e","s","t"," ","p","r","a","c","t","i","c","e","s">>,  \* 'Step 4: Think about architecture, edge cases, and best practices'
                  <<"S","t","e","p"," ","5",":"," ","C","o","n","s","i","d","e","r"," ","e","r","r","o","r"," ","h","a","n","d","l","i","n","g"," ","a","n","d"," ","m","a","i","n","t","a","i","n","a","b","i","l","i","t","y">> >>  \* 'Step 5: Consider error handling and maintainability'
        ELSE IF a.taskType = "criativa"
          THEN << <<"S","t","e","p"," ","4",":"," ","T","h","i","n","k"," ","a","b","o","u","t"," ","i","n","n","o","v","a","t","i","v","e"," ","a","p","p","r","o","a","c","h","e","s"," ","a","n","d"," ","c","r","e","a","t","i","v","e"," ","c","o","n","s","t","r","a","i","n","t","s">>,  \* 'Step 4: Think about innovative approaches and creative constraints'
                  <<"S","t","e","p"," ","5",":"," ","C","o","n","s","i","d","e","r"," ","a","e","s","t","h","e","t","i","c"," ","a","n","d"," ","f","u","n","c","t","i","o","n","a","l"," ","b","a","l","a","n","c","e">> >>  \* 'Step 5: Consider aesthetic and functional balance'
        ELSE IF a.taskType = "analitica"
          THEN << <<"S","t","e","p"," ","4",":"," ","A","n","a","l","y","z","e"," ","m","u","l","t","i","p","l","e"," ","p","e","r","s","p","e","c","t","i","v","e","s"," ","a","n","d"," ","t","r","a","d","e","-","o","f","f","s">>,  \* 'Step 4: Analyze multiple perspectives and trade-offs'
                  <<"S","t","e","p"," ","5",":"," ","F","o","r","m","u","l","a","t","e"," ","e","v","i","d","e","n","c","e","-","b","a","s","e","d"," ","c","o","n","c","l","u","s","i","o","n","s">> >>  \* 'Step 5: Formulate evidence-based conclusions'
        ELSE << >>)
    \o << <<"S","t","e","p"," ","6",":"," ","S","t","r","u","c","t","u","r","e"," ","t","h","e"," ","p","r","o","m","p","t"," ","w","i","t","h"," ","c","l","e","a","r"," ","s","e","c","t","i","o","n","s"," ","a","n","d"," ","r","e","q","u","i","r","e","m","e","n","t","s">>,  \* 'Step 6: Structure the prompt with clear sections and requirements'
          <<"S","t","e","p"," ","7",":"," ","V","a","l","i","d","a","t","e"," ","t","h","a","t"," ","a","l","l"," ","m","e","t","a","-","i","n","s","t","r","u","c","t","i","o","n","s"," ","a","r","e"," ","i","n","c","o","r","p","o","r","a","t","e","d">> >>  \* 'Step 7: Validate that all meta-instructions are incorporated'

\* buildGenerationDirective with another verb
buildGenerationDirective_Produce(a) ==
    <<"B","a","s","e","d"," ","o","n"," ","t","h","e","s","e"," ","m","e","t","a","-","i","n","s","t","r","u","c","t","i","o","n","s",","," ","p","r","o","d","u","c","e"," ","a","n"," ","o","p","t","i","m","i","z","e","d"," ","p","r","o","m","p","t"," ","f","o","r"," ","a"," ">>  \* 'Based on these meta-instructions, produce an optimized prompt for a '
      \o translateTaskType(a.taskType) \o <<" ","o","u","t","p","u","t",".">>  \* ' output.'

buildGenerationDirective(a) ==
    <<"B","a","s","e","d"," ","o","n"," ","t","h","e","s","e"," ","m","e","t","a","-","i","n","s","t","r","u","c","t","i","o","n","s",","," ","g","e","n","e","r","a","t","e"," ","a","n"," ","o","p","t","i","m","i","z","e","d"," ","p","r","o","m","p","t"," ","t","h","a","t"," ","i","n","c","o","r","p","o","r","a","t","e","s"," ","a","l","l"," ","t","h","e"," ","d","i","r","e","c","t","i","v","e","s"," ","a","b","o","v","e","."," ","T","h","e"," ","p","r","o","m","p","t"," ","s","h","o","u","l","d"," ","g","u","i","d","e"," ","t","h","e"," ","A","I"," ","t","o"," ","p","r","o","d","u","c","e"," ">>  \* 'Based on these meta-instructions, generate an optimized prompt that incorporates all the directives above. The prompt should guide the AI to produce '
      \o translateTaskType(a.taskType) \o <<" ","o","u","t","p","u","t"," ","w","i","t","h"," ">> \o Text(a.complexityLevel)  \* ' output with '
      \o <<" ","l","e","v","e","l"," ","s","o","p","h","i","s","t","i","c","a","t","i","o","n","."," ","R","e","m","e","m","b","e","r",":"," ","y","o","u"," ","a","r","e"," ","G","E","N","E","R","A","T","I","N","G"," ","t","h","e"," ","p","r","o","m","p","t"," ","n","o","w",","," ","n","o","t"," ","e","x","e","c","u","t","i","n","g"," ","i","t",".">>  \* ' level sophistication. Remember: you are GENERATING the prompt now, not executing it.'

buildMetaInstructions(originalRequest, a, techs) ==
    [ type                        |-> "meta_instructions",
      cognitiveAnalysisProtocol   |-> buildCognitiveProtocol(a),
      promptEngineeringDirectives |-> buildEngineeringDirectives(a, techs),
      requiredStructuralElements  |-> buildStructuralRequirements(a, techs),
      thinkingProtocol            |-> buildThinkingProtocol(a),
      originalRequest             |-> originalRequest,
      generationDirective         |-> buildGenerationDirective(a) ]

---------------------------------------------------------------------------
(* PromptFormatter: the justification of the techniques *)

\* techniques.some(t => t.technique === name)
someTechnique(techs, name) == \E i \in 1..Len(techs) : techs[i].technique = name

identifyImprovements(a, techs) ==
    LET when(cond, texts) == IF cond THEN texts ELSE << >>
    IN when(someTechnique(techs, "role_prompting"),
            << <<"R","e","s","p","o","s","t","a"," ","m","a","i","s"," ","c","o","n","t","e","x","t","u","a","l","i","z","a","d","a"," ","e"," ","p","r","o","f","i","s","s","i","o","n","a","l">> >>)  \* 'Resposta mais contextualizada e profissional'
       \o when(someTechnique(techs, "iq_attribution"),
            << <<"P","r","o","f","u","n","d","i","d","a","d","e"," ","d","e"," ","r","e","s","p","o","s","t","a"," ","a","p","r","o","p","r","i","a","d","a"," ","p","a","r","a"," ","n","í","v","e","l"," ">> \o Text(a.complexityLevel) >>)  \* 'Profundidade de resposta apropriada para nível '
       \o when(someTechnique(techs, "emotion_prompting"),
            << <<"M","a","i","o","r"," ","a","t","e","n","ç","ã","o"," ","a"," ","d","e","t","a","l","h","e","s"," ","e"," ","q","u","a","l","i","d","a","d","e">> >>)  \* 'Maior atenção a detalhes e qualidade'
       \o (IF a.taskType = "codigo"
             THEN << <<"C","ó","d","i","g","o"," ","m","a","i","s"," ","r","o","b","u","s","t","o"," ","e"," ","b","e","m"," ","e","s","t","r","u","t","u","r","a","d","o">>,  \* 'Código mais robusto e bem estruturado'
                     <<"M","e","l","h","o","r","e","s"," ","p","r","á","t","i","c","a","s"," ","a","p","l","i","c","a","d","a","s"," ","c","o","n","s","i","s","t","e","n","t","e","m","e","n","t","e">> >>  \* 'Melhores práticas aplicadas consistentemente'
           ELSE IF a.taskType = "educacional"
             THEN << <<"E","x","p","l","i","c","a","ç","ã","o"," ","m","a","i","s"," ","c","l","a","r","a"," ","e"," ","d","i","d","á","t","i","c","a">>,  \* 'Explicação mais clara e didática'
                     <<"C","o","n","c","e","i","t","o","s"," ","m","a","i","s"," ","b","e","m"," ","e","x","e","m","p","l","i","f","i","c","a","d","o","s">> >>  \* 'Conceitos mais bem exemplificados'
           ELSE << >>)
       \o when(a.complexityLevel = "expert",
            << <<"A","b","o","r","d","a","g","e","m"," ","m","a","i","s"," ","s","o","f","i","s","t","i","c","a","d","a"," ","e"," ","o","t","i","m","i","z","a","d","a">>,  \* 'Abordagem mais sofisticada e otimizada'
               <<"C","o","n","s","i","d","e","r","a","ç","ã","o"," ","d","e"," ","e","d","g","e"," ","c","a","s","e","s"," ","e"," ","c","e","n","á","r","i","o","s"," ","c","o","m","p","l","e","x","o","s">> >>)  \* 'Consideração de edge cases e cenários complexos'
       \o when(someTechnique(techs, "fake_past_consistency"),
            << <<"M","a","i","o","r"," ","c","o","e","r","ê","n","c","i","a"," ","e"," ","c","o","n","t","i","n","u","i","d","a","d","e"," ","t","é","c","n","i","c","a">> >>)  \* 'Maior coerência e continuidade técnica'
       \o when(someTechnique(techs, "simtom"),
            << <<"A","n","á","l","i","s","e"," ","m","u","l","t","i","-","p","e","r","s","p","e","c","t","i","v","a"," ","m","a","i","s"," ","c","o","m","p","l","e","t","a">> >>)  \* 'Análise multi-perspectiva mais completa'
       \o when(someTechnique(techs, "bet_100_dollars"),
            << <<"V","a","l","i","d","a","ç","ã","o"," ","t","é","c","n","i","c","a"," ","m","a","i","s"," ","r","i","g","o","r","o","s","a">> >>)  \* 'Validação técnica mais rigorosa'

buildJustification(techs, a) ==
    [ techniques           |-> [i \in 1..Len(techs) |->
                                   [ name   |-> displayName(techs[i].technique),
                                     reason |-> techs[i].reason ]],
      expectedImprovements |-> identifyImprovements(a, techs) ]

---------------------------------------------------------------------------
(* PromptOptimizer *)

\* optimize, steps 4 and 5: the justification and the OptimizationResult returned
assembleResult(userRequest, a, techs, meta) ==
    [ analysis               |-> [ originalRequest     |-> userRequest,
                                   taskType            |-> a.taskType,
                                   identifiedObjective |-> a.mainObjective,
                                   appliedTechniques   |-> techniqueNames(techs) ],
      metaInstructions       |-> meta,
      technicalJustification |-> buildJustification(techs, a) ]

\* the whole of optimize; `random` is the position drawn by Math.random
optimize(userRequest, ctx, random) ==
    LET a     == analyze(userRequest, ctx)
        techs == selectTechniques(a, random)
        meta  == buildMetaInstructions(userRequest, a, techs)
    IN assembleResult(userRequest, a, techs, meta)

\* one of the verbs the generation directive must carry, in any letter case
instructsToGenerate(directive) ==
    \/ includes(toLowerCase(directive), <<"g","e","n","e","r","a","t","e">>)  \* 'generate'
    \/ includes(toLowerCase(directive), <<"c","o","n","s","t","r","u","c","t">>)  \* 'construct'
    \/ includes(toLowerCase(directive), <<"b","u","i","l","d">>)  \* 'build'

validateMetaInstructions(framework) ==
    LET when(cond, text) == IF cond THEN <<text>> ELSE << >>
        issues ==
            when(Len(framework.promptEngineeringDirectives) = 0,
                 <<"N","o"," ","p","r","o","m","p","t"," ","e","n","g","i","n","e","e","r","i","n","g"," ","d","i","r","e","c","t","i","v","e","s"," ","p","r","o","v","i","d","e","d">>)  \* 'No prompt engineering directives provided'
            \o when(/\ ~includes(toLowerCase(framework.generationDirective), <<"g","e","n","e","r","a","t","e">>)  \* 'generate'
                    /\ ~includes(toLowerCase(framework.generationDirective), <<"c","o","n","s","t","r","u","c","t">>)  \* 'construct'
                    /\ ~includes(toLowerCase(framework.generationDirective), <<"b","u","i","l","d">>),  \* 'build'
                    <<"G","e","n","e","r","a","t","i","o","n"," ","d","i","r","e","c","t","i","v","e"," ","d","o","e","s"," ","n","o","t"," ","i","n","s","t","r","u","c","t"," ","A","I"," ","t","o"," ","g","e","n","e","r","a","t","e"," ","p","r","o","m","p","t">>)  \* 'Generation directive does not instruct AI to generate prompt'
            \o when(Len(framework.thinkingProtocol) < 3,
                    <<"T","h","i","n","k","i","n","g"," ","p","r","o","t","o","c","o","l"," ","i","s"," ","t","o","o"," ","s","h","a","l","l","o","w"," ","(","m","i","n","i","m","u","m"," ","3"," ","s","t","e","p","s",")">>)  \* 'Thinking protocol is too shallow (minimum 3 steps)'
            \o when(Len(framework.requiredStructuralElements.contextRequirements) = 0,
                    <<"M","i","s","s","i","n","g"," ","c","o","n","t","e","x","t"," ","r","e","q","u","i","r","e","m","e","n","t","s">>)  \* 'Missing context requirements'
    IN [ isValid |-> Len(issues) = 0, issues |-> issues ]

validateResult(optimized) ==
    LET when(cond, text) == IF cond THEN <<text>> ELSE << >>
        metaValidation == validateMetaInstructions(optimized.metaInstructions)
        issues ==
            when(Len(optimized.analysis.identifiedObjective) < 10,
                 <<"O","b","j","e","t","i","v","o"," ","n","ã","o"," ","e","s","t","á"," ","c","l","a","r","o"," ","e"," ","b","e","m"," ","d","e","f","i","n","i","d","o">>)  \* 'Objetivo não está claro e bem definido'
            \o when(Len(optimized.analysis.appliedTechniques) > 4,
                    <<"M","u","i","t","a","s"," ","t","é","c","n","i","c","a","s"," ","a","p","l","i","c","a","d","a","s"," ","(","m","á","x","i","m","o"," ","4",")">>)  \* 'Muitas técnicas aplicadas (máximo 4)'
            \o when(Len(optimized.analysis.appliedTechniques) < 2,
                    <<"P","o","u","c","a","s"," ","t","é","c","n","i","c","a","s"," ","a","p","l","i","c","a","d","a","s"," ","(","m","í","n","i","m","o"," ","2",")">>)  \* 'Poucas técnicas aplicadas (mínimo 2)'
            \o (IF ~metaValidation.isValid THEN metaValidation.issues ELSE << >>)
            \o when(~instructsToGenerate(optimized.metaInstructions.generationDirective),
                    <<"C","R","I","T","I","C","A","L",":"," ","M","e","t","a","-","i","n","s","t","r","u","c","t","i","o","n","s"," ","m","u","s","t"," ","i","n","s","t","r","u","c","t"," ","A","I"," ","t","o"," ","G","E","N","E","R","A","T","E"," ","p","r","o","m","p","t",","," ","n","o","t"," ","p","r","o","v","i","d","e"," ","i","t"," ","r","e","a","d","y">>)  \* 'CRITICAL: Meta-instructions must instruct AI to GENERATE prompt, not provide it ready'
    IN [ isValid |-> Len(issues) = 0, issues |-> issues ]

---------------------------------------------------------------------------
(* LumoraPrompterServer *)

\* String.prototype.toUpperCase
toUpperCase(s) ==
    [i \in 1..Len(s) |->
        IF \E k \in 1..Len(LowerCase) : LowerCase[k] = s[i]
          THEN UpperCase[CHOOSE k \in 1..Len(LowerCase) : LowerCase[k] = s[i]]
          ELSE s[i]]

\* the lines pushed by a forEach over strings, each behind `prefix`
prefixed(prefix, lines) == [i \in 1..Len(lines) |-> prefix \o lines[i]]

\* the three lines formatOutput pushes for each directive
RECURSIVE directiveSections(_)
directiveSections(directives) ==
    IF Len(directives) = 0 THEN << >>
    ELSE LET directive == Head(directives)
         IN << <<"#","#","#"," ","S","t","e","p"," ">> \o numberToString(directive.step) \o <<":"," ">> \o directive.technique,  \* '### Step ' | ': '
               <<"*","*","D","i","r","e","c","t","i","v","e","*","*",":"," ">> \o directive.directive,  \* '**Directive**: '
               <<"*","*","R","e","a","s","o","n","i","n","g","*","*",":"," ">> \o directive.reasoning \o <<"\n">> >>  \* '**Reasoning**: ' | '\n'
            \o directiveSections(Tail(directives))

\* the Quality Assessment section, pushed when the optimized carries a qualityScore
qualitySections(optimized) ==
    IF "qualityScore" \in DOMAIN optimized
      THEN LET score == optimized.qualityScore
           IN << <<"\n","#","#"," ","U+1F4CA"," ","Q","u","a","l","i","t","y"," ","A","s","s","e","s","s","m","e","n","t","\n">>,  \* '\n## U+1F4CA  Quality Assessment\n'
                 <<"*","*","O","v","e","r","a","l","l"," ","S","c","o","r","e","*","*",":"," ">> \o numberToString(score.overall) \o <<"/","1","0","0"," ","(">>  \* '**Overall Score**: ' | '/100 ('
                   \o toUpperCase(Text(score.confidence)) \o <<" ","c","o","n","f","i","d","e","n","c","e",")","\n">>,  \* ' confidence)\n'
                 <<"*","*","S","c","o","r","e"," ","B","r","e","a","k","d","o","w","n","*","*",":">>,  \* '**Score Breakdown**:'
                 <<"-"," ","C","l","a","r","i","t","y",":"," ">> \o numberToString(score.breakdown.clarity) \o <<"/","1","0","0">>,  \* '- Clarity: ' | '/100'
                 <<"-"," ","C","o","m","p","l","e","t","e","n","e","s","s",":"," ">> \o numberToString(score.breakdown.completeness) \o <<"/","1","0","0">>,  \* '- Completeness: ' | '/100'
                 <<"-"," ","S","p","e","c","i","f","i","c","i","t","y",":"," ">> \o numberToString(score.breakdown.specificity) \o <<"/","1","0","0">>,  \* '- Specificity: ' | '/100'
                 <<"-"," ","T","e","c","h","n","i","q","u","e"," ","B","a","l","a","n","c","e",":"," ">> \o numberToString(score.breakdown.techniqueBalance) \o <<"/","1","0","0">>,  \* '- Technique Balance: ' | '/100'
                 <<"-"," ","A","c","t","i","o","n","a","b","i","l","i","t","y",":"," ">> \o numberToString(score.breakdown.actionability) \o <<"/","1","0","0">>,  \* '- Actionability: ' | '/100'
                 <<"\n","-","-","-","\n">> >>  \* '\n---\n'
      ELSE << >>

\* the example section, pushed when the optimized carries a non-empty fewShotExamples
fewShotSections(optimized) ==
    IF "fewShotExamples" \in DOMAIN optimized /\ Len(optimized.fewShotExamples) > 0
      THEN << <<"#","#"," ","U+1F4A1"," ","E","x","a","m","p","l","e",":"," ","H","o","w"," ","t","o"," ","A","p","p","l","y"," ","T","h","e","s","e"," ","I","n","s","t","r","u","c","t","i","o","n","s","\n">>,  \* '## U+1F4A1  Example: How to Apply These Instructions\n'
              optimized.fewShotExamples,
              <<"\n","-","-","-","\n">> >>  \* '\n---\n'
      ELSE << >>

\* the sections formatOutput pushes, in order
outputSections(optimized, validated) ==
    LET meta       == optimized.metaInstructions
        structural == meta.requiredStructuralElements
    IN << <<"#"," ","U+1F9E0"," ","M","E","T","A","-","I","N","S","T","R","U","C","T","I","O","N"," ","S","E","T">>,  \* '# U+1F9E0  META-INSTRUCTION SET'
          <<"#","#"," ","C","o","g","n","i","t","i","v","e"," ","E","n","h","a","n","c","e","m","e","n","t"," ","F","r","a","m","e","w","o","r","k"," ","f","o","r"," ","A","I"," ","P","r","o","m","p","t"," ","G","e","n","e","r","a","t","i","o","n","\n">>,  \* '## Cognitive Enhancement Framework for AI Prompt Generation\n'
          <<"U+26A0","U+FE0F"," ","*","*","I","M","P","O","R","T","A","N","T","*","*",":"," ","T","h","e","s","e"," ","a","r","e"," ","I","N","S","T","R","U","C","T","I","O","N","S"," ","f","o","r"," ","y","o","u"," ","t","o"," ","G","E","N","E","R","A","T","E"," ","a","n"," ","o","p","t","i","m","i","z","e","d"," ","p","r","o","m","p","t",".">>,  \* 'U+26A0 U+FE0F  **IMPORTANT**: These are INSTRUCTIONS for you to GENERATE an optimized prompt.'
          <<"D","o"," ","N","O","T"," ","u","s","e"," ","t","h","e","s","e"," ","a","s"," ","t","h","e"," ","f","i","n","a","l"," ","p","r","o","m","p","t","."," ","Y","o","u"," ","m","u","s","t"," ","C","O","N","S","T","R","U","C","T"," ","y","o","u","r"," ","o","w","n"," ","p","r","o","m","p","t"," ","b","a","s","e","d"," ","o","n"," ","t","h","e","s","e"," ","d","i","r","e","c","t","i","v","e","s",".","\n">>,  \* 'Do NOT use these as the final prompt. You must CONSTRUCT your own prompt based on these directives.\n'
          <<"-","-","-","\n">>,  \* '---\n'
          <<"#","#"," ","U+1F50D"," ","C","o","g","n","i","t","i","v","e"," ","A","n","a","l","y","s","i","s"," ","P","r","o","t","o","c","o","l","\n">>,  \* '## U+1F50D  Cognitive Analysis Protocol\n'
          <<"*","*","T","a","s","k"," ","I","d","e","n","t","i","f","i","c","a","t","i","o","n","*","*",":"," ">> \o meta.cognitiveAnalysisProtocol.taskIdentification,  \* '**Task Identification**: '
          <<"*","*","C","o","m","p","l","e","x","i","t","y"," ","A","s","s","e","s","s","m","e","n","t","*","*",":"," ">> \o meta.cognitiveAnalysisProtocol.complexityAssessment,  \* '**Complexity Assessment**: '
          <<"*","*","O","b","j","e","c","t","i","v","e"," ","C","l","a","r","i","t","y","*","*",":"," ">> \o meta.cognitiveAnalysisProtocol.objectiveClarity \o <<"\n">>,  \* '**Objective Clarity**: ' | '\n'
          <<"#","#"," ","U+1F3AF"," ","P","r","o","m","p","t"," ","E","n","g","i","n","e","e","r","i","n","g"," ","D","i","r","e","c","t","i","v","e","s","\n">>,  \* '## U+1F3AF  Prompt Engineering Directives\n'
          <<"A","p","p","l","y"," ","t","h","e"," ","f","o","l","l","o","w","i","n","g"," ","t","e","c","h","n","i","q","u","e","s"," ","w","h","e","n"," ","c","o","n","s","t","r","u","c","t","i","n","g"," ","y","o","u","r"," ","p","r","o","m","p","t",":","\n">> >>  \* 'Apply the following techniques when constructing your prompt:\n'
       \o directiveSections(meta.promptEngineeringDirectives)
       \o << <<"-","-","-","\n">>,  \* '---\n'
             <<"#","#"," ","U+1F4DD"," ","R","e","q","u","i","r","e","d"," ","S","t","r","u","c","t","u","r","a","l"," ","E","l","e","m","e","n","t","s","\n">>,  \* '## U+1F4DD  Required Structural Elements\n'
             <<"#","#","#"," ","C","o","n","t","e","x","t"," ","R","e","q","u","i","r","e","m","e","n","t","s",":">> >>  \* '### Context Requirements:'
       \o prefixed(<<"-"," ">>, structural.contextRequirements)  \* '- '
       \o << << >> >>
       \o (IF Len(structural.constraintsToObserve) > 0
             THEN << <<"#","#","#"," ","C","o","n","s","t","r","a","i","n","t","s"," ","t","o"," ","O","b","s","e","r","v","e",":">> >>  \* '### Constraints to Observe:'
                  \o prefixed(<<"-"," ">>, structural.constraintsToObserve)  \* '- '
                  \o << << >> >>
             ELSE << >>)
       \o << <<"#","#","#"," ","O","u","t","p","u","t"," ","F","o","r","m","a","t"," ","G","u","i","d","e","l","i","n","e","s",":">> >>  \* '### Output Format Guidelines:'
       \o prefixed(<<"-"," ">>, structural.outputFormatGuidelines)  \* '- '
       \o << <<"\n","-","-","-","\n">>,  \* '\n---\n'
             <<"#","#"," ","U+1F9D1","U+200D","U+1F4BB"," ","T","h","i","n","k","i","n","g"," ","P","r","o","t","o","c","o","l","\n">>,  \* '## U+1F9D1 U+200D U+1F4BB  Thinking Protocol\n'
             <<"F","o","l","l","o","w"," ","t","h","i","s"," ","c","o","g","n","i","t","i","v","e"," ","p","r","o","c","e","s","s"," ","w","h","e","n"," ","g","e","n","e","r","a","t","i","n","g"," ","y","o","u","r"," ","p","r","o","m","p","t",":","\n">> >>  \* 'Follow this cognitive process when generating your prompt:\n'
       \o prefixed(<<"-"," ">>, meta.thinkingProtocol)  \* '- '
       \o << <<"\n","-","-","-","\n">>,  \* '\n---\n'
             <<"#","#"," ","U+1F4EC"," ","O","r","i","g","i","n","a","l"," ","R","e","q","u","e","s","t","\n">>,  \* '## U+1F4EC  Original Request\n'
             <<"\"">> \o meta.originalRequest \o <<"\"","\n">>,  \* '\"' | '\"\n'
             <<"-","-","-","\n">>,  \* '---\n'
             <<"#","#"," ","U+2699","U+FE0F"," ","G","E","N","E","R","A","T","I","O","N"," ","D","I","R","E","C","T","I","V","E","\n">>,  \* '## U+2699 U+FE0F  GENERATION DIRECTIVE\n'
             <<"U+1F4E2"," ","*","*">> \o meta.generationDirective \o <<"*","*","\n">>,  \* 'U+1F4E2  **' | '**\n'
             <<"-","-","-","\n">> >>  \* '---\n'
       \o (IF ~validated.isValid
             THEN << <<"#","#"," ","U+26A0","U+FE0F"," ","V","a","l","i","d","a","t","i","o","n"," ","W","a","r","n","i","n","g","s","\n">> >>  \* '## U+26A0 U+FE0F  Validation Warnings\n'
                  \o prefixed(<<"-"," ">>, validated.issues)  \* '- '
                  \o << <<"\n","-","-","-","\n">> >>  \* '\n---\n'
             ELSE << >>)
       \o << <<"#","#"," ","U+1F50D"," ","T","e","c","h","n","i","c","a","l"," ","J","u","s","t","i","f","i","c","a","t","i","o","n","\n">>,  \* '## U+1F50D  Technical Justification\n'
             <<"*","*","W","h","y"," ","T","h","e","s","e"," ","T","e","c","h","n","i","q","u","e","s","?","*","*","\n">> >>  \* '**Why These Techniques?**\n'
       \o [i \in 1..Len(optimized.technicalJustification.techniques) |->
              <<"-"," ","*","*">> \o optimized.technicalJustification.techniques[i].name \o <<"*","*",":"," ">>  \* '- **' | '**: '
                \o optimized.technicalJustification.techniques[i].reason]
       \o << <<"\n","*","*","E","x","p","e","c","t","e","d"," ","I","m","p","r","o","v","e","m","e","n","t","s","*","*",":","\n">> >>  \* '\n**Expected Improvements**:\n'
       \o prefixed(<<"-"," ">>, optimized.technicalJustification.expectedImprovements)  \* '- '
       \o qualitySections(optimized)
       \o fewShotSections(optimized)
       \o << <<"\n","-","-","-","\n">>,  \* '\n---\n'
             <<"*","G","e","n","e","r","a","t","e","d"," ","b","y"," ","M","C","P","-","L","u","m","o","r","a","_","P","r","o","m","p","t","e","r"," ","v","3",".","0"," ","-"," ","M","e","t","a","-","C","o","g","n","i","t","i","v","e"," ","I","n","s","t","r","u","c","t","i","o","n"," ","F","r","a","m","e","w","o","r","k","*">>,  \* '*Generated by MCP-Lumora_Prompter v3.0 - Meta-Cognitive Instruction Framework*'
             <<"*","E","n","h","a","n","c","e","d"," ","w","i","t","h"," ","d","o","m","a","i","n","-","s","p","e","c","i","f","i","c"," ","t","e","m","p","l","a","t","e","s",","," ","q","u","a","l","i","t","y"," ","m","e","t","r","i","c","s",","," ","a","n","d"," ","f","e","w","-","s","h","o","t"," ","e","x","a","m","p","l","e","s","*">>,  \* '*Enhanced with domain-specific templates, quality metrics, and few-shot examples*'
             <<"*","R","e","m","e","m","b","e","r",":"," ","T","h","i","s"," ","i","s"," ","a"," ","T","E","A","C","H","E","R",","," ","n","o","t"," ","a"," ","G","E","N","E","R","A","T","O","R","."," ","B","u","i","l","d"," ","y","o","u","r"," ","o","w","n"," ","o","p","t","i","m","i","z","e","d"," ","p","r","o","m","p","t"," ","b","a","s","e","d"," ","o","n"," ","t","h","e","s","e"," ","i","n","s","t","r","u","c","t","i","o","n","s",".","*">> >>  \* '*Remember: This is a TEACHER, not a GENERATOR. Build your own optimized prompt based on these instructions.*'

\* sections.join('\n')
\* formatOutput that leaves the Validation Warnings section out
formatOutput_NoWarnings(optimized, validated) ==
    join(outputSections(optimized, [isValid |-> TRUE, issues |-> << >>]), <<"\n">>)

formatOutput(optimized, validated) == join(outputSections(optimized, validated), <<"\n">>)

---------------------------------------------------------------------------
(* QualityEvaluator *)

\* the clamp without its lower end: Math.min(100, score)
clamp_UpperOnly(score) == IF score > 100 THEN 100 ELSE score

\* Math.max(0, Math.min(100, score))
clamp(score) == IF score < 0 THEN 0 ELSE IF score > 100 THEN 100 ELSE score

\* !directive.reasoning: the member is missing or the empty string
noReasoning(d) == "reasoning" \notin DOMAIN d \/ Len(d.reasoning) = 0

\* /step\s+\d+/i.test(step)
testStepNumber(step) ==
    LET lower == toLowerCase(step)
    IN \E i \in 1..(Len(lower) - 5) :
         /\ SubSeq(lower, i, i + 3) = <<"s","t","e","p">>  \* 'step'
         /\ \E j \in (i + 5)..Len(lower) :
              /\ \A k \in (i + 4)..(j - 1) : lower[k] \in WhiteSpace
              /\ arrayIncludes(Digits, lower[j])

\* avgDirectiveLength, a quotient no score reads, is left out
calculateMetrics(meta) ==
    [ directiveCount          |-> Len(meta.promptEngineeringDirectives),
      structuralElementsCount |-> Len(meta.requiredStructuralElements.contextRequirements)
                                    + Len(meta.requiredStructuralElements.constraintsToObserve)
                                    + Len(meta.requiredStructuralElements.outputFormatGuidelines),
      thinkingSteps           |-> Len(meta.thinkingProtocol),
      techniquesCovered       |-> Len(meta.promptEngineeringDirectives),
      hasExamples             |-> FALSE,
      hasFallbacks            |-> FALSE ]

evaluateClarity(meta, metrics) ==
    LET directives == meta.promptEngineeringDirectives
        short(d)   == Len(d.directive) < 30
        long(d)    == Len(d.directive) > 200
        bare(d)    == noReasoning(d) \/ Len(d.reasoning) < 20
        verbless   == /\ ~includes(meta.generationDirective, <<"g","e","n","e","r","a","t","e">>)  \* 'generate'
                      /\ ~includes(meta.generationDirective, <<"c","o","n","s","t","r","u","c","t">>)  \* 'construct'
                      /\ ~includes(meta.generationDirective, <<"b","u","i","l","d">>)  \* 'build'
    IN clamp(100 - 5 * Cardinality({i \in 1..Len(directives) : short(directives[i])})
                 - 3 * Cardinality({i \in 1..Len(directives) : long(directives[i])})
                 - 8 * Cardinality({i \in 1..Len(directives) : bare(directives[i])})
                 - (IF metrics.thinkingSteps < 4 THEN 10 ELSE 0)
                 - (IF metrics.thinkingSteps > 10 THEN 5 ELSE 0)
                 - (IF verbless THEN 15 ELSE 0))

evaluateCompleteness(meta, metrics) ==
    LET points(cond, n) == IF cond THEN n ELSE 0
        cognitive  == meta.cognitiveAnalysisProtocol
        structural == meta.requiredStructuralElements
        score ==
            points(Len(cognitive.taskIdentification) > 10, 7)
              + points(Len(cognitive.complexityAssessment) > 10, 7)
              + points(Len(cognitive.objectiveClarity) > 10, 6)
              + points(metrics.directiveCount >= 3, 10)
              + points(metrics.directiveCount >= 4, 8)
              + points(metrics.directiveCount >= 5, 7)
              + points(Len(structural.contextRequirements) > 0, 8)
              + points(Len(structural.outputFormatGuidelines) > 0, 9)
              + points(Len(structural.constraintsToObserve) > 0, 8)
              + points(metrics.thinkingSteps >= 4, 10)
              + points(metrics.thinkingSteps >= 6, 10)
              + points(Len(meta.generationDirective) > 50, 10)
    IN IF score > 100 THEN 100 ELSE score

evaluateSpecificity(meta, a) ==
    LET points(cond, n) == IF cond THEN n ELSE 0
        directives     == meta.promptEngineeringDirectives
        contextReqs    == meta.requiredStructuralElements.contextRequirements
        constraints    == meta.requiredStructuralElements.constraintsToObserve
        genericPhrases == << <<"a","p","p","r","o","p","r","i","a","t","e">>, <<"r","e","l","e","v","a","n","t">>, <<"s","u","i","t","a","b","l","e">>, <<"p","r","o","p","e","r">> >>  \* 'appropriate' | 'relevant' | 'suitable' | 'proper'
        hasKeywordInDirectives ==
            \E i \in 1..Len(directives), k \in 1..Len(a.keywords) :
                includes(toLowerCase(directives[i].directive), toLowerCase(a.keywords[k]))
        generic(d) == \E p \in 1..Len(genericPhrases) :
                          includes(toLowerCase(d.directive), genericPhrases[p])
    IN clamp(70 + points(hasKeywordInDirectives, 15)
                + points(Len(contextReqs) >= 3, 10)
                + points(\E i \in 1..Len(contextReqs) : Len(contextReqs[i]) > 30, 5)
                + points(Len(constraints) > 0, 5)
                - 3 * Cardinality({i \in 1..Len(directives) : generic(directives[i])}))

evaluateTechniqueBalance(techs) ==
    LET points(cond, n) == IF cond THEN n ELSE 0
        mandatory(t)     == t.technique \in {"role_prompting", "iq_attribution"}
        counted(t)       == t.technique \in {"role_prompting", "iq_attribution", "emotion_prompting"}
        hasMandatory     == \E i \in 1..Len(techs) : mandatory(techs[i])
        mandatoryCount   == Cardinality({i \in 1..Len(techs) : counted(techs[i])})
        situationalCount == Len(techs) - mandatoryCount
    IN clamp(100 - points(Len(techs) < 3, 20)
                 - points(Len(techs) > 5, (Len(techs) - 5) * 10)
                 - points(~hasMandatory, 30)
                 + points(mandatoryCount >= 2 /\ situationalCount >= 1 /\ situationalCount <= 2, 10))

evaluateActionability(meta) ==
    LET points(cond, n) == IF cond THEN n ELSE 0
        directives  == meta.promptEngineeringDirectives
        actionVerbs == << <<"a","p","p","l","y">>, <<"i","m","p","l","e","m","e","n","t">>, <<"u","s","e">>, <<"i","n","c","l","u","d","e">>, <<"a","d","d">>, <<"c","r","e","a","t","e">>,  \* 'apply' | 'implement' | 'use' | 'include' | 'add' | 'create'
                          <<"d","e","f","i","n","e">>, <<"s","p","e","c","i","f","y">> >>  \* 'define' | 'specify'
        actionable(d) == \E v \in 1..Len(actionVerbs) :
                             includes(toLowerCase(d.directive), actionVerbs[v])
        vague(d)      == Len(d.directive) < 40 \/ noReasoning(d)
        actionableCount == Cardinality({i \in 1..Len(directives) : actionable(directives[i])})
        hasStepNumbers  == \E i \in 1..Len(meta.thinkingProtocol) :
                               testStepNumber(meta.thinkingProtocol[i])
        lowerDirective  == toLowerCase(meta.generationDirective)
    IN clamp(80 + (IF actionableCount * 4 > 20 THEN 20 ELSE actionableCount * 4)
                + points(hasStepNumbers, 5)
                + points(includes(lowerDirective, <<"b","a","s","e","d"," ","o","n"," ","t","h","e","s","e">>)  \* 'based on these'
                           \/ includes(lowerDirective, <<"f","o","l","l","o","w","i","n","g"," ","t","h","e","s","e">>), 5)  \* 'following these'
                - 5 * Cardinality({i \in 1..Len(directives) : vague(directives[i])}))

\* the weights, in hundredths
weights ==
    [ clarity |-> 25, completeness |-> 25, specificity |-> 20, techniqueBalance |-> 15,
      actionability |-> 15 ]

\* the weighted sum of a breakdown, in hundredths
weightedSum(breakdown) ==
    breakdown.clarity * weights.clarity
      + breakdown.completeness * weights.completeness
      + breakdown.specificity * weights.specificity
      + breakdown.techniqueBalance * weights.techniqueBalance
      + breakdown.actionability * weights.actionability

\* calculateOverallScore that drops the fraction instead of rounding
calculateOverallScore_Truncated(breakdown) == weightedSum(breakdown) \div 100

\* Math.round of the sum accumulated in doubles: the nearest integer, the
\* upper one at a half. The double sum is on the same side of every half as
\* the exact sum for each breakdown evaluateQuality can return; it falls under
\* the half only for 28 breakdowns with specificity below 4 and completeness
\* below 8, e.g. (0, 0, 1, 0, 62), which need 22 directives or more and so a
\* completeness of 25 or more.
calculateOverallScore(breakdown) == (weightedSum(breakdown) + 50) \div 100

identifyStrengths(breakdown, metrics) ==
    LET when(cond, text) == IF cond THEN <<text>> ELSE << >>
    IN when(breakdown.clarity >= 85, <<"E","x","c","e","p","t","i","o","n","a","l","l","y"," ","c","l","e","a","r"," ","a","n","d"," ","w","e","l","l","-","s","t","r","u","c","t","u","r","e","d"," ","d","i","r","e","c","t","i","v","e","s">>)  \* 'Exceptionally clear and well-structured directives'
       \o when(breakdown.completeness >= 85, <<"C","o","m","p","r","e","h","e","n","s","i","v","e"," ","c","o","v","e","r","a","g","e"," ","o","f"," ","a","l","l"," ","n","e","c","e","s","s","a","r","y"," ","e","l","e","m","e","n","t","s">>)  \* 'Comprehensive coverage of all necessary elements'
       \o when(breakdown.specificity >= 85, <<"H","i","g","h","l","y"," ","s","p","e","c","i","f","i","c"," ","a","n","d"," ","d","o","m","a","i","n","-","r","e","l","e","v","a","n","t"," ","i","n","s","t","r","u","c","t","i","o","n","s">>)  \* 'Highly specific and domain-relevant instructions'
       \o when(breakdown.techniqueBalance >= 85, <<"O","p","t","i","m","a","l"," ","b","a","l","a","n","c","e"," ","o","f"," ","p","r","o","m","p","t","i","n","g"," ","t","e","c","h","n","i","q","u","e","s">>)  \* 'Optimal balance of prompting techniques'
       \o when(breakdown.actionability >= 85, <<"C","l","e","a","r",","," ","a","c","t","i","o","n","a","b","l","e"," ","d","i","r","e","c","t","i","v","e","s"," ","e","a","s","y"," ","t","o"," ","f","o","l","l","o","w">>)  \* 'Clear, actionable directives easy to follow'
       \o when(metrics.thinkingSteps >= 6, <<"D","e","t","a","i","l","e","d"," ","t","h","i","n","k","i","n","g"," ","p","r","o","t","o","c","o","l"," ","f","o","r"," ","s","y","s","t","e","m","a","t","i","c"," ","a","p","p","r","o","a","c","h">>)  \* 'Detailed thinking protocol for systematic approach'
       \o when(metrics.structuralElementsCount >= 6,
               <<"R","i","c","h"," ","s","t","r","u","c","t","u","r","a","l"," ","r","e","q","u","i","r","e","m","e","n","t","s"," ","f","o","r"," ","c","o","m","p","r","e","h","e","n","s","i","v","e"," ","o","u","t","p","u","t">>)  \* 'Rich structural requirements for comprehensive output'

\* QualityEvaluator.identifyImprovements (PromptFormatter has a method of the same name)
QualityEvaluator_identifyImprovements(breakdown, metrics) ==
    LET when(cond, text) == IF cond THEN <<text>> ELSE << >>
    IN when(breakdown.clarity < 70, <<"I","n","c","r","e","a","s","e"," ","c","l","a","r","i","t","y"," ","o","f"," ","d","i","r","e","c","t","i","v","e","s"," ","w","i","t","h"," ","m","o","r","e"," ","s","p","e","c","i","f","i","c"," ","l","a","n","g","u","a","g","e">>)  \* 'Increase clarity of directives with more specific language'
       \o when(breakdown.completeness < 70, <<"A","d","d"," ","m","i","s","s","i","n","g"," ","s","t","r","u","c","t","u","r","a","l"," ","e","l","e","m","e","n","t","s"," ","o","r"," ","t","h","i","n","k","i","n","g"," ","s","t","e","p","s">>)  \* 'Add missing structural elements or thinking steps'
       \o when(breakdown.specificity < 70, <<"M","a","k","e"," ","i","n","s","t","r","u","c","t","i","o","n","s"," ","m","o","r","e"," ","d","o","m","a","i","n","-","s","p","e","c","i","f","i","c"," ","a","n","d"," ","l","e","s","s"," ","g","e","n","e","r","i","c">>)  \* 'Make instructions more domain-specific and less generic'
       \o when(breakdown.techniqueBalance < 70,
               <<"A","d","j","u","s","t"," ","n","u","m","b","e","r"," ","o","f"," ","t","e","c","h","n","i","q","u","e","s"," ","f","o","r"," ","b","e","t","t","e","r"," ","c","o","g","n","i","t","i","v","e"," ","b","a","l","a","n","c","e">>)  \* 'Adjust number of techniques for better cognitive balance'
       \o when(breakdown.actionability < 70,
               <<"U","s","e"," ","m","o","r","e"," ","a","c","t","i","o","n"," ","v","e","r","b","s"," ","a","n","d"," ","s","p","e","c","i","f","i","c"," ","i","m","p","l","e","m","e","n","t","a","t","i","o","n"," ","g","u","i","d","a","n","c","e">>)  \* 'Use more action verbs and specific implementation guidance'
       \o when(metrics.directiveCount < 3, <<"A","d","d"," ","m","o","r","e"," ","p","r","o","m","p","t"," ","e","n","g","i","n","e","e","r","i","n","g"," ","d","i","r","e","c","t","i","v","e","s">>)  \* 'Add more prompt engineering directives'
       \o when(metrics.thinkingSteps < 5, <<"E","x","p","a","n","d"," ","t","h","i","n","k","i","n","g"," ","p","r","o","t","o","c","o","l"," ","w","i","t","h"," ","m","o","r","e"," ","d","e","t","a","i","l","e","d"," ","s","t","e","p","s">>)  \* 'Expand thinking protocol with more detailed steps'
       \o when(metrics.structuralElementsCount < 4,
               <<"I","n","c","l","u","d","e"," ","m","o","r","e"," ","s","t","r","u","c","t","u","r","a","l"," ","r","e","q","u","i","r","e","m","e","n","t","s"," ","a","n","d"," ","c","o","n","s","t","r","a","i","n","t","s">>)  \* 'Include more structural requirements and constraints'

\* the confidence without the test of the thinking steps
assessConfidence_NoStepTest(overall, metrics) ==
    IF overall >= 85 /\ metrics.directiveCount >= 4 THEN "high"
    ELSE IF overall >= 70 /\ metrics.directiveCount >= 3 THEN "medium"
    ELSE "low"

assessConfidence(overall, metrics) ==
    IF overall >= 85 /\ metrics.directiveCount >= 4 /\ metrics.thinkingSteps >= 5 THEN "high"
    ELSE IF overall >= 70 /\ metrics.directiveCount >= 3 THEN "medium"
    ELSE "low"

evaluateQuality(meta, a, techs) ==
    LET metrics   == calculateMetrics(meta)
        breakdown == [ clarity          |-> evaluateClarity(meta, metrics),
                       completeness     |-> evaluateCompleteness(meta, metrics),
                       specificity      |-> evaluateSpecificity(meta, a),
                       techniqueBalance |-> evaluateTechniqueBalance(techs),
                       actionability    |-> evaluateActionability(meta) ]
        overall   == calculateOverallScore(breakdown)
    IN [ overall      |-> overall,
         breakdown    |-> breakdown,
         strengths    |-> identifyStrengths(breakdown, metrics),
         improvements |-> QualityEvaluator_identifyImprovements(breakdown, metrics),
         confidence   |-> assessConfidence(overall, metrics) ]

---------------------------------------------------------------------------
(* The calls the model makes *)

\* the longest request, in phrases of the vocabulary
MaxPhrases == 2

\* the longest keyword list of an AnalysisResult given to the selector directly
MaxKeywords == 3

Vocabulary ==
    << <<"A","P","I">>, <<"c","r","i","a","r"," ","l","o","g","o">>, <<"t","u","t","o","r","i","a","l">>, <<"a","l","g","o","r","i","t","m","o">>, <<"d","a","d","o","s">>, <<"t","i","m","e">>, <<"a","p","r","e","n","d","e","r">> >>  \* 'API' | 'criar logo' | 'tutorial' | 'algoritmo' | 'dados' | 'time' | 'aprender'

\* the phrases that touch no first-pass indicator except as a keyword
PairVocabulary == << <<"d","a","d","o","s">>, <<"t","i","m","e">>, <<"n","p","m">> >>  \* 'dados' | 'time' | 'npm'

Filler == <<"d","e">>  \* 'de'

\* filler words appended to reach the word-count thresholds from either side
PadCounts == {19, 20, 29, 30}

ScenarioA == <<"C","r","e","a","t","e"," ","a"," ","R","E","S","T"," ","A","P","I"," ","f","o","r"," ","u","s","e","r"," ","a","u","t","h","e","n","t","i","c","a","t","i","o","n"," ","w","i","t","h"," ","J","W","T">>  \* 'Create a REST API for user authentication with JWT'

ScenarioB == <<"E","x","p","l","i","q","u","e"," ","o"," ","q","u","e"," ","s","ã","o"," ","m","i","c","r","o","s","e","r","v","i","ç","o","s">>  \* 'Explique o que são microserviços'

ScenarioBContext == <<"P","a","r","a"," ","e","s","t","u","d","a","n","t","e","s"," ","d","e"," ","g","r","a","d","u","a","ç","ã","o">>  \* 'Para estudantes de graduação'

\* the sequences of 1..n phrases of a vocabulary, joined by single spaces
Phrased(vocabulary, n) ==
    LET choices == UNION {[1..k -> 1..Len(vocabulary)] : k \in 1..n}
    IN {join([i \in 1..Len(c) |-> vocabulary[c[i]]], <<" ">>) : c \in choices}

Padded(text, n) == join(<<text>> \o [i \in 1..n |-> Filler], <<" ">>)

Requests ==
    Phrased(Vocabulary, MaxPhrases)
      \cup {Padded(text, n) : text \in Phrased(Vocabulary, 1), n \in PadCounts}
      \cup {ScenarioA, ScenarioB}

PairRequests == Phrased(PairVocabulary, MaxPhrases)

Contexts == {NoContext, ScenarioBContext}

\* AnalysisResult values given to the selector directly: every taskType and
\* complexityLevel, with audiences, implicit contexts, keyword lists and
\* objectives on both sides of each gate
SampleKeywords == << <<"d","a","d","o","s">>, <<"p","y","t","h","o","n">>, <<"s","i","s","t","e","m","a">>, <<"b","a","n","c","o">>, <<"t","e","s","t","e","s">> >>  \* 'dados' | 'python' | 'sistema' | 'banco' | 'testes'

AnalysisResults ==
  { [r EXCEPT !.suggestedIQ = suggestIQLevel(r.complexityLevel)] : r \in
    [ taskType        : TaskTypes,
      complexityLevel : ComplexityLevels,
      mainObjective   : {<<"R","e","s","o","l","v","e","r"," ","s","o","l","i","c","i","t","a","ç","ã","o"," ","d","o"," ","u","s","u","á","r","i","o">>, <<"D","o","c","u","m","e","n","t","a","r"," ","p","r","o","j","e","t","o">>},  \* 'Resolver solicitação do usuário' | 'Documentar projeto'
      implicitContext : { << >>,
                          << <<"C","ó","d","i","g","o"," ","p","a","r","a"," ","p","r","o","d","u","ç","ã","o"," ","-"," ","a","l","t","a"," ","q","u","a","l","i","d","a","d","e"," ","n","e","c","e","s","s","á","r","i","a">> >>,  \* 'Código para produção - alta qualidade necessária'
                          << <<"A","p","r","e","s","e","n","t","a","ç","ã","o"," ","p","a","r","a"," ","C","l","i","e","n","t","e">> >> },  \* 'Apresentação para Cliente'
      targetAudience  : {<<"E","s","t","u","d","a","n","t","e","/","A","p","r","e","n","d","i","z">>, <<"D","e","s","e","n","v","o","l","v","e","d","o","r"," ","g","e","r","a","l">>},  \* 'Estudante/Aprendiz' | 'Desenvolvedor geral'
      suggestedIQ     : {0},
      keywords        : {SubSeq(SampleKeywords, 1, n) : n \in 0..MaxKeywords} ] }

---------------------------------------------------------------------------
(* The values a tools/call request can carry *)

Undefined == [type |-> "undefined"]

StringValue(s) == [type |-> "string", string |-> s]

NumberValue(n) == [type |-> "number", number |-> n]

\* request.params.arguments when it is an object
ArgumentsObject(userRequest, ctx) ==
    [type |-> "object", user_request |-> userRequest, context |-> ctx]

\* !value
falsy(value) ==
    \/ value.type = "undefined"
    \/ value.type = "string" /\ value.string = << >>
    \/ value.type = "number" /\ value.number = 0

OptimizePrompt == <<"o","p","t","i","m","i","z","e","_","p","r","o","m","p","t">>  \* 'optimize_prompt'

\* args.context as the optional string optimize hands to analyze
contextOf(value) == IF value.type = "string" THEN value.string ELSE NoContext

contextValue(ctx) == IF ctx = NoContext THEN Undefined ELSE StringValue(ctx)

\* the calls with a string user_request of `inputs`
WellFormedCalls(inputs) ==
    { [name |-> OptimizePrompt, arguments |-> ArgumentsObject(StringValue(req), contextValue(ctx))] :
        req \in inputs, ctx \in Contexts }

\* calls without arguments, without user_request, with an empty or a non-string
\* user_request, and a call of a tool the server does not have
MalformedCalls ==
    { [name |-> OptimizePrompt, arguments |-> Undefined],
      [name |-> OptimizePrompt, arguments |-> ArgumentsObject(Undefined, Undefined)],
      [name |-> OptimizePrompt, arguments |-> ArgumentsObject(Undefined, StringValue(ScenarioBContext))],
      [name |-> OptimizePrompt, arguments |-> ArgumentsObject(StringValue(<< >>), Undefined)],
      [name |-> OptimizePrompt, arguments |-> ArgumentsObject(NumberValue(42), Undefined)],
      [name |-> OptimizePrompt, arguments |-> ArgumentsObject(NumberValue(0), Undefined)],
      [name |-> <<"o","p","t","i","m","i","z","e">>, arguments |-> ArgumentsObject(StringValue(ScenarioA), Undefined)] }  \* 'optimize'

Calls(inputs) == WellFormedCalls(inputs) \cup MalformedCalls

---------------------------------------------------------------------------
(* The server: one call at a time, each step of handleOptimizePrompt *)

Nothing == [none |-> TRUE]

NoCall == [call |-> Nothing, request |-> << >>, context |-> NoContext, firstReading |-> Nothing,
           analysis |-> Nothing, techniques |-> << >>, metaInstructions |-> Nothing,
           result |-> Nothing, response |-> Nothing]

McpError(code, message) == [isError |-> TRUE, code |-> code, message |-> message]

\* a handler that keeps the error of the call before and throws it again
callError_Sticky(c) ==
    IF previous.response # Nothing /\ previous.response.isError
      THEN previous.response
    ELSE IF c.name # OptimizePrompt
      THEN McpError("MethodNotFound", <<"T","o","o","l"," ","n","ã","o"," ","e","n","c","o","n","t","r","a","d","a",":"," ">> \o c.name)  \* 'Tool não encontrada: '
    ELSE IF c.arguments = Undefined
      THEN McpError("InternalError",
                    <<"E","r","r","o"," ","a","o"," ","o","t","i","m","i","z","a","r"," ","p","r","o","m","p","t",":"," ">>  \* 'Erro ao otimizar prompt: '
                      \o <<"C","a","n","n","o","t"," ","r","e","a","d"," ","p","r","o","p","e","r","t","i","e","s"," ","o","f"," ","u","n","d","e","f","i","n","e","d"," ","(","r","e","a","d","i","n","g"," ","'","u","s","e","r","_","r","e","q","u","e","s","t","'",")">>)  \* 'Cannot read properties of undefined (reading 'user_request')'
    ELSE IF falsy(c.arguments.user_request) \/ c.arguments.user_request.type # "string"
      THEN McpError("InvalidParams", <<"u","s","e","r","_","r","e","q","u","e","s","t"," ","é"," ","o","b","r","i","g","a","t","ó","r","i","o"," ","e"," ","d","e","v","e"," ","s","e","r"," ","u","m","a"," ","s","t","r","i","n","g">>)  \* 'user_request é obrigatório e deve ser uma string'
    ELSE Nothing

\* the error the handler throws for a call before optimize runs, Nothing if none.
\* Reading args.user_request of missing arguments throws a TypeError inside the
\* try block, which the catch clause wraps as InternalError (the message is V8's).
callError(c) ==
    IF c.name # OptimizePrompt
      THEN McpError("MethodNotFound", <<"T","o","o","l"," ","n","ã","o"," ","e","n","c","o","n","t","r","a","d","a",":"," ">> \o c.name)  \* 'Tool não encontrada: '
    ELSE IF c.arguments = Undefined
      THEN McpError("InternalError",
                    <<"E","r","r","o"," ","a","o"," ","o","t","i","m","i","z","a","r"," ","p","r","o","m","p","t",":"," ">>  \* 'Erro ao otimizar prompt: '
                      \o <<"C","a","n","n","o","t"," ","r","e","a","d"," ","p","r","o","p","e","r","t","i","e","s"," ","o","f"," ","u","n","d","e","f","i","n","e","d"," ","(","r","e","a","d","i","n","g"," ","'","u","s","e","r","_","r","e","q","u","e","s","t","'",")">>)  \* 'Cannot read properties of undefined (reading 'user_request')'
    ELSE IF falsy(c.arguments.user_request) \/ c.arguments.user_request.type # "string"
      THEN McpError("InvalidParams", <<"u","s","e","r","_","r","e","q","u","e","s","t"," ","é"," ","o","b","r","i","g","a","t","ó","r","i","o"," ","e"," ","d","e","v","e"," ","s","e","r"," ","u","m","a"," ","s","t","r","i","n","g">>)  \* 'user_request é obrigatório e deve ser uma string'
    ELSE Nothing

Init ==
    /\ pc = "idle"
    /\ call = Nothing
    /\ request = << >>
    /\ context = NoContext
    /\ firstReading = Nothing
    /\ analysis = Nothing
    /\ techniques = << >>
    /\ metaInstructions = Nothing
    /\ result = Nothing
    /\ validation = Nothing
    /\ response = Nothing
    /\ qualityScore = Nothing
    /\ domainTemplate = Nothing
    /\ previous = NoCall

\* a tools/call request arrives: the CallTool handler checks the tool name and
\* handleOptimizePrompt checks user_request; a call that passes becomes the
\* OptimizationRequest, any other is answered with the error thrown
Receive(inputs) ==
    /\ pc = "idle"
    /\ \E c \in Calls(inputs) :
         /\ call' = c
         /\ response' = callError(c)
         /\ IF callError(c) = Nothing
              THEN /\ request' = c.arguments.user_request.string
                   /\ context' = contextOf(c.arguments.context)
                   /\ pc' = "received"
              ELSE /\ request' = << >>
                   /\ context' = NoContext
                   /\ pc' = "failed"
    /\ UNCHANGED <<firstReading, analysis, techniques, metaInstructions, result, validation,
                   previous, qualityScore, domainTemplate>>

\* optimize, step 1: analyzer.analyze(request.user_request, request.context)
Analyze ==
    /\ pc = "received"
    /\ firstReading' = firstReadingOf(request, context)
    /\ analysis' = analyze(request, context)
    /\ pc' = "analyzed"
    /\ UNCHANGED <<call, request, context, techniques, metaInstructions, result, validation,
                   response, previous, qualityScore, domainTemplate>>

\* optimize, step 2: selector.selectTechniques(analysis)
SelectTechniques ==
    /\ pc = "analyzed"
    /\ \E random \in RandomIndexes : techniques' = selectTechniques(analysis, random)
    /\ pc' = "selected"
    /\ UNCHANGED <<call, request, context, firstReading, analysis, metaInstructions, result,
                   validation, response, previous, qualityScore, domainTemplate>>

\* optimize, step 3: metaBuilder.buildMetaInstructions(user_request, analysis, techniques)
BuildMetaInstructions ==
    /\ pc = "selected"
    /\ metaInstructions' = buildMetaInstructions(request, analysis, techniques)
    /\ pc' = "built"
    /\ UNCHANGED <<call, request, context, firstReading, analysis, techniques, result,
                   validation, response, previous, qualityScore, domainTemplate>>

\* optimize, steps 4 and 5: the justification is built and the result returned
AssembleResult ==
    /\ pc = "built"
    /\ result' = assembleResult(request, analysis, techniques, metaInstructions)
    /\ pc' = "optimized"
    /\ UNCHANGED <<call, request, context, firstReading, analysis, techniques, metaInstructions,
                   validation, response, previous, qualityScore, domainTemplate>>

\* handleOptimizePrompt: this.optimizer.validateResult(result)
ValidateResult ==
    /\ pc = "optimized"
    /\ validation' = validateResult(result)
    /\ pc' = "validated"
    /\ UNCHANGED <<call, request, context, firstReading, analysis, techniques, metaInstructions,
                   result, response, previous, qualityScore, domainTemplate>>

\* handleOptimizePrompt: formatOutput(result, validation) is returned as text content
FormatOutput ==
    /\ pc = "validated"
    /\ response' = [ isError |-> FALSE,
                     content |-> << [ type |-> "text", text |-> formatOutput(result, validation) ] >> ]
    /\ pc' = "responded"
    /\ UNCHANGED <<call, request, context, firstReading, analysis, techniques, metaInstructions,
                   result, validation, previous, qualityScore, domainTemplate>>

\* the handler has answered; the objects of the call are dropped. `record` keeps
\* what the call was given and returned, to compare it with the next call
Respond(record) ==
    /\ pc \in {"responded", "failed"}
    /\ pc' = "idle"
    /\ previous' = IF record
                   THEN [call |-> call, request |-> request, context |-> context,
                         firstReading |-> firstReading, analysis |-> analysis,
                         techniques |-> techniques, metaInstructions |-> metaInstructions,
                         result |-> result, response |-> response]
                   ELSE previous
    /\ call' = Nothing
    /\ request' = << >>
    /\ context' = NoContext
    /\ firstReading' = Nothing
    /\ analysis' = Nothing
    /\ techniques' = << >>
    /\ metaInstructions' = Nothing
    /\ result' = Nothing
    /\ validation' = Nothing
    /\ response' = Nothing
    /\ qualityScore' = Nothing
    /\ domainTemplate' = Nothing

Next ==
    \/ Receive(Requests)
    \/ Analyze
    \/ SelectTechniques
    \/ BuildMetaInstructions
    \/ AssembleResult
    \/ ValidateResult
    \/ FormatOutput
    \/ Respond(FALSE)

Spec == Init /\ [][Next]_vars

\* two calls in a row, the first one kept for comparison
PairNext ==
    \/ Receive(PairRequests)
    \/ Analyze
    \/ SelectTechniques
    \/ BuildMetaInstructions
    \/ AssembleResult
    \/ ValidateResult
    \/ FormatOutput
    \/ Respond(TRUE)

PairSpec == Init /\ [][PairNext]_vars

\* selectTechniques as a function of any AnalysisResult
SelectorInit ==
    /\ pc = "analyzed"
    /\ call = Nothing
    /\ request = << >>
    /\ context = NoContext
    /\ firstReading = Nothing
    /\ analysis \in AnalysisResults
    /\ techniques = << >>
    /\ metaInstructions = Nothing
    /\ result = Nothing
    /\ validation = Nothing
    /\ response = Nothing
    /\ qualityScore = Nothing
    /\ domainTemplate = Nothing
    /\ previous = NoCall

SelectorNext == SelectTechniques

SelectorSpec == SelectorInit /\ [][SelectorNext]_vars

---------------------------------------------------------------------------
(* DomainMatcher *)

\* Object.values(DOMAIN_TEMPLATES), each with the members matchDomain reads
\* and the key it is declared under
DOMAIN_TEMPLATES ==
    << [ key |-> "web_frontend",     domain |-> <<"F","r","o","n","t","e","n","d"," ","W","e","b"," ","D","e","v","e","l","o","p","m","e","n","t">>,             taskType |-> "codigo" ],  \* 'Frontend Web Development'
       [ key |-> "web_backend",      domain |-> <<"B","a","c","k","e","n","d"," ","W","e","b"," ","D","e","v","e","l","o","p","m","e","n","t">>,              taskType |-> "codigo" ],  \* 'Backend Web Development'
       [ key |-> "machine_learning", domain |-> <<"M","a","c","h","i","n","e"," ","L","e","a","r","n","i","n","g"," ","&"," ","A","I">>,                taskType |-> "codigo" ],  \* 'Machine Learning & AI'
       [ key |-> "data_analysis",    domain |-> <<"D","a","t","a"," ","A","n","a","l","y","s","i","s"," ","&"," ","V","i","s","u","a","l","i","z","a","t","i","o","n">>,        taskType |-> "analitica" ],  \* 'Data Analysis & Visualization'
       [ key |-> "devops",           domain |-> <<"D","e","v","O","p","s"," ","&"," ","I","n","f","r","a","s","t","r","u","c","t","u","r","e">>,              taskType |-> "tecnica" ],  \* 'DevOps & Infrastructure'
       [ key |-> "security",         domain |-> <<"C","y","b","e","r","s","e","c","u","r","i","t","y"," ","&"," ","A","p","p","l","i","c","a","t","i","o","n"," ","S","e","c","u","r","i","t","y">>, taskType |-> "tecnica" ],  \* 'Cybersecurity & Application Security'
       [ key |-> "database_design",  domain |-> <<"D","a","t","a","b","a","s","e"," ","D","e","s","i","g","n"," ","&"," ","O","p","t","i","m","i","z","a","t","i","o","n">>,       taskType |-> "codigo" ],  \* 'Database Design & Optimization'
       [ key |-> "system_design",    domain |-> <<"D","i","s","t","r","i","b","u","t","e","d"," ","S","y","s","t","e","m","s"," ","&"," ","A","r","c","h","i","t","e","c","t","u","r","e">>,   taskType |-> "tecnica" ],  \* 'Distributed Systems & Architecture'
       [ key |-> "ui_ux_design",     domain |-> <<"U","I","/","U","X"," ","D","e","s","i","g","n">>,                         taskType |-> "criativa" ],  \* 'UI/UX Design'
       [ key |-> "api_design",       domain |-> <<"A","P","I"," ","D","e","s","i","g","n"," ","&"," ","I","n","t","e","g","r","a","t","i","o","n">>,             taskType |-> "tecnica" ],  \* 'API Design & Integration'
       [ key |-> "algorithms",       domain |-> <<"A","l","g","o","r","i","t","h","m","s"," ","&"," ","D","a","t","a"," ","S","t","r","u","c","t","u","r","e","s">>,         taskType |-> "codigo" ] >>  \* 'Algorithms & Data Structures'

\* the score matchDomain's loop gives a template
domainScore(template, req, keywords, taskType) ==
    LET lowerRequest   == toLowerCase(req)
        lowerDomain    == toLowerCase(template.domain)
        domainKeywords == splitWhiteSpace(lowerDomain)
    IN (IF template.taskType = taskType THEN 5 ELSE 0)
       + 3 * Cardinality({i \in 1..Len(domainKeywords) : includes(lowerRequest, domainKeywords[i])})
       + 2 * Cardinality({k \in 1..Len(keywords) : includes(lowerDomain, keywords[k])})

\* `scores` after the loop: the templates with a positive score, in catalog order
domainScores(req, keywords, taskType) ==
    LET entries == [i \in 1..Len(DOMAIN_TEMPLATES) |->
                       [ template |-> DOMAIN_TEMPLATES[i],
                         score    |-> domainScore(DOMAIN_TEMPLATES[i], req, keywords, taskType) ]]
    IN SelectSeq(entries, LAMBDA entry : entry.score > 0)

\* matchDomain returning the last of the best-scored templates
matchDomain_LastBest(req, keywords, taskType) ==
    LET scores == domainScores(req, keywords, taskType)
        best   == {i \in 1..Len(scores) : \A k \in 1..Len(scores) : scores[k].score <= scores[i].score}
    IN IF Len(scores) > 0 /\ \E i \in best : scores[i].score >= 5
         THEN scores[CHOOSE i \in best : \A k \in best : k <= i].template
         ELSE Nothing

\* null is written Nothing
matchDomain(req, keywords, taskType) ==
    LET scores == sortDescending(domainScores(req, keywords, taskType))
    IN IF Len(scores) > 0 /\ scores[1].score >= 5 THEN scores[1].template ELSE Nothing

---------------------------------------------------------------------------
(* buildMetaInstructions as a function of any AnalysisResult and technique list *)

\* a TechniqueApplication of each PromptingTechnique, in the order of the type
AllTechniques ==
    LET names == << "role_prompting", "iq_attribution", "fake_past_consistency",
                    "emotion_prompting", "fake_audience", "obviously", "false_restriction",
                    "version_2", "someone_disagrees", "bet_100_dollars", "simtom", "rar", "re2" >>
    IN [i \in 1..Len(names) |->
          [ technique      |-> names[i],
            reason         |-> <<"R","e","a","s","o","n"," ","g","i","v","e","n"," ","b","y"," ","t","h","e"," ","c","a","l","l","e","r">>,  \* 'Reason given by the caller'
            implementation |-> <<"a","s"," ","t","h","e"," ","c","a","l","l","e","r"," ","w","r","o","t","e"," ","i","t">> ]]  \* 'as the caller wrote it'

\* the lists handed to the builder: none, what the selector returns for the
\* analysis, every technique once, and a single technique
TechniqueLists(a) ==
    { << >>, AllTechniques }
      \cup { selectTechniques(a, random) : random \in RandomIndexes }
      \cup { << AllTechniques[i] >> : i \in {2, 7} }

BuilderInit ==
    /\ pc = "selected"
    /\ call = Nothing
    /\ request = ScenarioA
    /\ context = NoContext
    /\ firstReading = Nothing
    /\ analysis \in AnalysisResults
    /\ techniques \in TechniqueLists(analysis)
    /\ metaInstructions = Nothing
    /\ result = Nothing
    /\ validation = Nothing
    /\ response = Nothing
    /\ qualityScore = Nothing
    /\ domainTemplate = Nothing
    /\ previous = NoCall

BuilderNext == BuildMetaInstructions

BuilderSpec == BuilderInit /\ [][BuilderNext]_vars

---------------------------------------------------------------------------
(* The same call made again *)

RepeatRequests == Phrased(Vocabulary, 1) \cup {ScenarioA}

\* a call arrives that repeats the call answered before, if there was one
ReceiveAgain ==
    /\ Receive(RepeatRequests)
    /\ previous.call # Nothing => call' = previous.call

RepeatNext ==
    \/ ReceiveAgain
    \/ Analyze
    \/ SelectTechniques
    \/ BuildMetaInstructions
    \/ AssembleResult
    \/ ValidateResult
    \/ FormatOutput
    \/ Respond(TRUE)

RepeatSpec == Init /\ [][RepeatNext]_vars

---------------------------------------------------------------------------
(* evaluateQuality as a function of any framework, analysis and technique list *)

\* frameworks around the one the builder returns: with all, two, none or only
\* vague directives; with the steps kept, cut to three or doubled; with the
\* generation directive kept or replaced by a capitalized short one; with the
\* structural elements kept or emptied
QualityFrameworks(a, techs) ==
    LET built == buildMetaInstructions(ScenarioA, a, techs)
        directives == built.promptEngineeringDirectives
        steps == built.thinkingProtocol
        vague(d) == [d EXCEPT !.directive = <<"B","e"," ","p","r","o","p","e","r">>, !.reasoning = << >>]  \* 'Be proper'
    IN { [built EXCEPT !.promptEngineeringDirectives = d,
                       !.thinkingProtocol = s,
                       !.generationDirective = g,
                       !.requiredStructuralElements = e] :
           d \in { directives, SubSeq(directives, 1, 2), << >>,
                   [i \in 1..Len(directives) |-> vague(directives[i])] },
           s \in { steps, SubSeq(steps, 1, 3), steps \o steps },
           g \in { built.generationDirective, <<"G","e","n","e","r","a","t","e"," ","t","h","e"," ","p","r","o","m","p","t">>, <<"W","r","i","t","e"," ","t","h","e"," ","p","r","o","m","p","t">> },  \* 'Generate the prompt' | 'Write the prompt'
           e \in { built.requiredStructuralElements,
                   [contextRequirements |-> << >>, constraintsToObserve |-> << >>,
                    outputFormatGuidelines |-> << >>] } }

QualityAnalyses ==
    { a \in AnalysisResults :
        /\ a.complexityLevel \in {"basico", "expert"}
        /\ a.mainObjective = <<"D","o","c","u","m","e","n","t","a","r"," ","p","r","o","j","e","t","o">>  \* 'Documentar projeto'
        /\ a.targetAudience = <<"D","e","s","e","n","v","o","l","v","e","d","o","r"," ","g","e","r","a","l">>  \* 'Desenvolvedor geral'
        /\ a.implicitContext = << >> }

QualityInit ==
    /\ pc = "built"
    /\ call = Nothing
    /\ request = ScenarioA
    /\ context = NoContext
    /\ firstReading = Nothing
    /\ analysis \in QualityAnalyses
    \* technique lists of 0, 2, 3, 3 to 5, 13 and 24 techniques
    /\ techniques \in { << >>, AllTechniques, selectTechniques(analysis, 1),
                        << AllTechniques[1], AllTechniques[7] >>,
                        << AllTechniques[4], AllTechniques[7], AllTechniques[9] >>,
                        AllTechniques \o SubSeq(AllTechniques, 3, 13) }
    /\ metaInstructions \in QualityFrameworks(analysis, techniques)
    /\ result = Nothing
    /\ validation = Nothing
    /\ response = Nothing
    /\ qualityScore = Nothing
    /\ domainTemplate = Nothing
    /\ previous = NoCall

\* QualityEvaluator.evaluateQuality(metaInstructions, analysis, techniques)
EvaluateQuality ==
    /\ pc = "built"
    /\ qualityScore' = evaluateQuality(metaInstructions, analysis, techniques)
    /\ pc' = "evaluated"
    /\ UNCHANGED <<call, request, context, firstReading, analysis, techniques, metaInstructions,
                   result, validation, response, previous, domainTemplate>>

QualityNext == EvaluateQuality

QualitySpec == QualityInit /\ [][QualityNext]_vars

---------------------------------------------------------------------------
(* matchDomain as a function of any request, keyword list and taskType *)

DomainInit ==
    /\ pc = "analyzed"
    /\ call = Nothing
    \* requests naming no domain word, one, words several templates share,
    \* and words in upper case
    /\ request \in { <<"d","a","d","o","s">>, <<"a","p","i"," ","d","e","s","i","g","n">>, <<"W","e","b"," ","D","e","v","e","l","o","p","m","e","n","t">>, <<"d","e","s","i","g","n">>, <<"f","r","o","n","t","e","n","d">>,  \* 'dados' | 'api design' | 'Web Development' | 'design' | 'frontend'
                     <<"d","a","t","a"," ","s","t","r","u","c","t","u","r","e","s"," ","&"," ","a","l","g","o","r","i","t","h","m","s">>, <<"c","y","b","e","r","s","e","c","u","r","i","t","y">>, <<"U","I","/","U","X">> }  \* 'data structures & algorithms' | 'cybersecurity' | 'UI/UX'
    /\ context = NoContext
    /\ firstReading = Nothing
    \* keyword lists: none, a word of several domain names, two matching
    \* words, one in upper case, one in no domain name
    /\ analysis \in { [a EXCEPT !.keywords = keywords] :
                        a \in {r \in QualityAnalyses : r.complexityLevel = "expert"},
                        keywords \in { << >>, << <<"d","e","s","i","g","n">> >>, << <<"d","a","t","a">>, <<"s","t","r","u","c","t","u","r","e","s">> >>,  \* 'design' | 'data' | 'structures'
                                       << <<"A","P","I">> >>, << <<"j","o","g","o","s">> >> } }  \* 'API' | 'jogos'
    /\ techniques = << >>
    /\ metaInstructions = Nothing
    /\ result = Nothing
    /\ validation = Nothing
    /\ response = Nothing
    /\ qualityScore = Nothing
    /\ domainTemplate = Nothing
    /\ previous = NoCall

\* DomainMatcher.matchDomain(request, keywords, taskType)
MatchDomain ==
    /\ pc = "analyzed"
    /\ domainTemplate' = matchDomain(request, analysis.keywords, analysis.taskType)
    /\ pc' = "matched"
    /\ UNCHANGED <<call, request, context, firstReading, analysis, techniques, metaInstructions,
                   result, validation, response, qualityScore, previous>>

DomainNext == MatchDomain

DomainSpec == DomainInit /\ [][DomainNext]_vars

---------------------------------------------------------------------------
(* Properties *)

Analyzed == pc \in {"analyzed", "selected", "built", "optimized", "validated", "responded"}

Selected == pc \in {"selected", "built", "optimized", "validated", "responded"}

appliedTechniques == {techniques[i].technique : i \in 1..Len(techniques)}

\* C1: selectTechniques returns a sequence of at least 2 and at most 4
\* techniques, whatever the AnalysisResult.
C1_LengthBetween2And4 ==
    Selected => Len(techniques) >= 2 /\ Len(techniques) <= 4

\* C2: no technique name occurs twice in the sequence selectTechniques returns.
C2_NoDuplicateTechnique ==
    Selected =>
        \A i, j \in 1..Len(techniques) :
            i # j => techniques[i].technique # techniques[j].technique

\* a selection where the mandatory part is full and two situational techniques follow
C2_FiveDistinctSelected ==
    /\ pc = "selected"
    /\ Len(techniques) = 5
    /\ Cardinality(appliedTechniques) = 5

\* C3: the first two elements of the selectTechniques result are role_prompting
\* and then iq_attribution, for every AnalysisResult and whatever situational
\* candidates qualify.
C3_RoleThenIQFirst ==
    Selected =>
        /\ Len(techniques) >= 2
        /\ techniques[1].technique = "role_prompting"
        /\ techniques[2].technique = "iq_attribution"

\* a selection with a situational technique that outscores every other (8 points)
C3_TopScoredSituationalBehind ==
    /\ pc = "selected"
    /\ analysis.taskType = "codigo"
    /\ analysis.complexityLevel = "expert"
    /\ techniques[1].technique = "role_prompting"
    /\ techniques[4].technique = "bet_100_dollars"

\* the 7 task types that have keywords
NonMixedTypes == {"codigo", "tecnica", "criativa", "analitica", "educacional", "debate", "documentacao"}

\* the types whose keyword-match count for the request is not zero
MatchedTypes(req) == {t \in NonMixedTypes : typeScore(req, t) > 0}

\* the position of a type in the declaration order of the pattern catalog
DeclarationIndex(t) == CHOOSE i \in 1..Len(patternTypes) : patternTypes[i] = t

\* an expert trigger: an expert indicator, or more than 30 words with a code term
ExpertTrigger(req) == expertScore(req) > 0 \/ (wordCount(req) > 30 /\ hasCodeTerms(req))

\* the intermediate tier: an intermediate indicator, or more than 20 words
MiddleTrigger(req) == intermediateScore(req) > 0 \/ wordCount(req) > 20

\* the request carries no signal: no task-type keyword, no complexity indicator,
\* no length trigger
NoSignal(req) ==
    /\ MatchedTypes(req) = {}
    /\ ~ExpertTrigger(req)
    /\ ~MiddleTrigger(req)
    /\ basicScore(req) = 0

\* C4: analyze never fails and returns a taskType of the 8 task types and a
\* complexityLevel of the 4 levels; a request with no task-type keyword, no
\* complexity indicator and no length trigger gets tecnica and intermediario.
C4_ClosedEnumsAndDefaults ==
    Analyzed =>
        /\ analysis.taskType \in TaskTypes
        /\ analysis.complexityLevel \in ComplexityLevels
        /\ NoSignal(request) =>
              analysis.taskType = "tecnica" /\ analysis.complexityLevel = "intermediario"

\* a request without any signal has been analyzed
C4_NoSignalAnalyzed ==
    /\ pc = "analyzed"
    /\ NoSignal(request)
    /\ Len(analysis.keywords) > 0

C6_MiddleTierIsIntermediario ==
    Analyzed =>
        /\ ExpertTrigger(request) => analysis.complexityLevel = "expert"
        /\ ~ExpertTrigger(request) /\ MiddleTrigger(request) =>
              analysis.complexityLevel = "intermediario"

\* C6, amended: the precedence is expert, then the intermediate tier (an
\* intermediate indicator or more than 20 words), then basic, then the default;
\* the intermediate tier gives the complexity avancado, and intermediario is
\* only the default.
C6_PrecedenceMiddleTierIsAvancado ==
    Analyzed =>
        /\ ExpertTrigger(request) => analysis.complexityLevel = "expert"
        /\ ~ExpertTrigger(request) /\ MiddleTrigger(request) =>
              analysis.complexityLevel = "avancado"
        /\ ~ExpertTrigger(request) /\ ~MiddleTrigger(request) /\ basicScore(request) > 0 =>
              analysis.complexityLevel = "basico"
        /\ ~ExpertTrigger(request) /\ ~MiddleTrigger(request) /\ basicScore(request) = 0 =>
              analysis.complexityLevel = "intermediario"

\* a request with both an intermediate and a basic indicator, and no expert trigger
C6_MiddleTierBeatsBasic ==
    /\ pc = "analyzed"
    /\ ~ExpertTrigger(request)
    /\ intermediateScore(request) > 0
    /\ basicScore(request) > 0
    /\ analysis.complexityLevel = "avancado"

\* the previous call and the current one have equal first-pass results
SameFirstPass ==
    /\ Analyzed
    /\ previous.analysis # Nothing
    /\ previous.firstReading.taskType = firstReading.taskType
    /\ previous.firstReading.complexityLevel = firstReading.complexityLevel
    /\ previous.firstReading.keywords = firstReading.keywords

\* C7 as stated: two requests with equal first-pass results (taskType,
\* complexityLevel, keywords) get the same mainObjective, targetAudience and
\* implicitContext.
C7_SecondPassFromFirstPassOnly ==
    SameFirstPass =>
        /\ previous.analysis.mainObjective = analysis.mainObjective
        /\ previous.analysis.targetAudience = analysis.targetAudience
        /\ previous.analysis.implicitContext = analysis.implicitContext

\* C7, amended: two requests with equal first-pass results get the same
\* mainObjective (and the same suggestedIQ); targetAudience and implicitContext
\* are read from the request text and are not covered.
C7_ObjectiveFromFirstPassOnly ==
    SameFirstPass =>
        /\ previous.analysis.mainObjective = analysis.mainObjective
        /\ previous.analysis.suggestedIQ = analysis.suggestedIQ

\* two different requests with equal first-pass results and different audiences
C7_SameFirstPassOtherAudience ==
    /\ SameFirstPass
    /\ previous.request # request
    /\ previous.analysis.targetAudience # analysis.targetAudience

\* C8: "Create a REST API for user authentication with JWT" gives taskType
\* codigo and complexityLevel expert, role_prompting and iq_attribution are
\* selected, and the generation directive contains "generate".
C8_ScenarioA ==
    pc = "built" /\ request = ScenarioA =>
        /\ analysis.taskType = "codigo"
        /\ analysis.complexityLevel = "expert"
        /\ {"role_prompting", "iq_attribution"} \subseteq appliedTechniques
        /\ includes(metaInstructions.generationDirective, <<"g","e","n","e","r","a","t","e">>)  \* 'generate'

\* C9: "Explique o que são microserviços" with the context "Para estudantes de
\* graduação" gives taskType educacional, the audience Estudante/Aprendiz, and
\* fake_audience among the selected techniques.
C9_ScenarioB ==
    Selected /\ request = ScenarioB /\ context = ScenarioBContext =>
        /\ analysis.taskType = "educacional"
        /\ analysis.targetAudience = <<"E","s","t","u","d","a","n","t","e","/","A","p","r","e","n","d","i","z">>  \* 'Estudante/Aprendiz'
        /\ "fake_audience" \in appliedTechniques

\* the situational gates other than RaR's that hold for an AnalysisResult
OtherGatesOpen(a) ==
    {g \in 1..6 :
        \/ g = 1 /\ (a.complexityLevel = "expert" \/ a.taskType = "tecnica")
        \/ g = 2 /\ (a.taskType = "educacional" \/ includes(a.targetAudience, <<"E","s","t","u","d","a","n","t","e">>))  \* 'Estudante'
        \/ g = 3 /\ a.taskType = "criativa"
        \/ g = 4 /\ (a.taskType = "analitica" \/ a.taskType = "debate")
        \/ g = 5 /\ (a.taskType = "codigo" /\ a.complexityLevel # "basico")
        \/ g = 6 /\ (a.taskType = "mista" \/ someIncludes(a.implicitContext, <<"C","l","i","e","n","t","e">>))}  \* 'Cliente'

\* C10 as stated: with fewer than 3 keywords, rar is in the sequence
\* selectTechniques returns.
C10_RarAlwaysSelected ==
    Selected /\ Len(analysis.keywords) < 3 => "rar" \in appliedTechniques

\* C10, amended: with fewer than 3 keywords, rar is in the sequence
\* selectTechniques returns exactly when at most one other situational gate
\* holds; with two or more, the two techniques kept are others, and rar,
\* which ranks last, is cut.
C10_RarSelectedUnlessTwoOthers ==
    Selected /\ Len(analysis.keywords) < 3 =>
        /\ "rar" \in appliedTechniques <=> Cardinality(OtherGatesOpen(analysis)) <= 1
        /\ "rar" \in appliedTechniques => techniques[Len(techniques)].technique = "rar"

\* fewer than 3 keywords, one other gate open, and rar selected behind it
C10_RarSelectedWithOneOther ==
    /\ pc = "selected"
    /\ Len(analysis.keywords) < 3
    /\ Cardinality(OtherGatesOpen(analysis)) = 1
    /\ "rar" \in appliedTechniques

---------------------------------------------------------------------------
(* Error handling and the result of optimize *)

\* C11: every optimize_prompt call whose user_request is missing, empty or
\* not a string, a call without arguments included, is answered with the
\* InvalidParams error, and nothing of the pipeline has run for it.
C11_InvalidInputIsInvalidParams ==
    LET invalidInput ==
            /\ call.name = OptimizePrompt
            /\ \/ call.arguments = Undefined
               \/ falsy(call.arguments.user_request)
               \/ call.arguments.user_request.type # "string"
        nothingProduced ==
            /\ firstReading = Nothing
            /\ analysis = Nothing
            /\ techniques = << >>
            /\ metaInstructions = Nothing
            /\ result = Nothing
    IN pc = "failed" /\ invalidInput =>
           /\ response.isError
           /\ response.code = "InvalidParams"
           /\ nothingProduced

\* C12: the result optimize returns holds the echoed facts, the framework,
\* the justification and a QualityScore.
C12_ResultHasQualityScore ==
    pc = "optimized" =>
        /\ result.analysis.originalRequest = request
        /\ result.metaInstructions = metaInstructions
        /\ "technicalJustification" \in DOMAIN result
        /\ "qualityScore" \in DOMAIN result

---------------------------------------------------------------------------
(* The framework buildMetaInstructions returns *)

\* C13: the thinkingProtocol of every framework built has between 5 and 7
\* entries, and promptEngineeringDirectives has at least 2.
C13_ProtocolAndDirectiveCounts ==
    pc = "built" =>
        /\ Len(metaInstructions.thinkingProtocol) \in 5..7
        /\ Len(metaInstructions.promptEngineeringDirectives) >= 2

\* a framework with the 5 general steps and 3 directives, built from no
\* technique at all
C13_FiveStepsFromNoTechnique ==
    /\ pc = "built"
    /\ techniques = << >>
    /\ Len(metaInstructions.thinkingProtocol) = 5
    /\ Len(metaInstructions.promptEngineeringDirectives) = 3

\* C14: for every AnalysisResult and technique list, validateMetaInstructions
\* reports no issue for the framework buildMetaInstructions returns: it has
\* directives, its generation directive has one of generate, construct,
\* build, its thinkingProtocol has 3 steps or more, and it has context
\* requirements.
C14_BuiltFrameworkIsValid ==
    pc = "built" =>
        /\ validateMetaInstructions(metaInstructions) = [isValid |-> TRUE, issues |-> << >>]
        /\ Len(metaInstructions.promptEngineeringDirectives) > 0
        /\ instructsToGenerate(metaInstructions.generationDirective)
        /\ Len(metaInstructions.thinkingProtocol) >= 3
        /\ Len(metaInstructions.requiredStructuralElements.contextRequirements) > 0

\* a framework built from a list with every technique, found valid
C14_EveryTechniqueFrameworkValid ==
    /\ pc = "built"
    /\ techniques = AllTechniques
    /\ validateMetaInstructions(metaInstructions).isValid

---------------------------------------------------------------------------
(* Two runs on the same input *)

\* C15: a run on the request and context of the run before returns the same
\* result; only in a criativa run may the implementation text of
\* false_restriction, the directive and the constraint that embed it differ,
\* each being one of the 3 restrictions.
C15_SameInputSameResult ==
    LET criativa == analysis.taskType = "criativa"
        asDirective(restriction) ==
            <<"A","p","p","l","y"," ","c","r","e","a","t","i","v","e"," ","c","o","n","s","t","r","a","i","n","t","s"," ","u","s","i","n","g"," ","\"","F","a","l","s","e"," ","R","e","s","t","r","i","c","t","i","o","n","\""," ","-"," ">> \o restriction  \* 'Apply creative constraints using \"False Restriction\" - '
        \* the same text, or in a criativa run two of the 3 restrictions, or two
        \* directives made of them
        sameOrRestriction(first, second) ==
            \/ first = second
            \/ /\ criativa
               /\ \E i, j \in RandomIndexes :
                    \/ first = restrictions[i] /\ second = restrictions[j]
                    \/ /\ first = asDirective(restrictions[i])
                       /\ second = asDirective(restrictions[j])
        sameFramework(first, second) ==
            LET d1 == first.promptEngineeringDirectives
                d2 == second.promptEngineeringDirectives
                c1 == first.requiredStructuralElements.constraintsToObserve
                c2 == second.requiredStructuralElements.constraintsToObserve
            IN /\ [first EXCEPT !.promptEngineeringDirectives = << >>,
                                !.requiredStructuralElements.constraintsToObserve = << >>]
                    = [second EXCEPT !.promptEngineeringDirectives = << >>,
                                     !.requiredStructuralElements.constraintsToObserve = << >>]
               /\ Len(d1) = Len(d2)
               /\ \A i \in 1..Len(d1) :
                    /\ [d1[i] EXCEPT !.directive = << >>] = [d2[i] EXCEPT !.directive = << >>]
                    /\ sameOrRestriction(d1[i].directive, d2[i].directive)
                    /\ d1[i].directive # d2[i].directive
                         => d1[i].technique = displayName("false_restriction")
               /\ Len(c1) = Len(c2)
               /\ \A i \in 1..Len(c1) : sameOrRestriction(c1[i], c2[i])
    IN pc = "optimized" /\ previous.result # Nothing /\ previous.call = call =>
           /\ analysis = previous.analysis
           /\ result.analysis = previous.result.analysis
           /\ result.technicalJustification = previous.result.technicalJustification
           /\ sameFramework(previous.result.metaInstructions, result.metaInstructions)
           /\ Len(techniques) = Len(previous.techniques)
           /\ \A i \in 1..Len(techniques) :
                /\ techniques[i].technique = previous.techniques[i].technique
                /\ techniques[i].reason = previous.techniques[i].reason
                /\ sameOrRestriction(previous.techniques[i].implementation,
                                     techniques[i].implementation)
                /\ techniques[i].implementation # previous.techniques[i].implementation
                     => techniques[i].technique = "false_restriction"

\* a criativa request run twice, the second run with another restriction
C15_SecondRunOtherRestriction ==
    /\ pc = "optimized"
    /\ previous.call = call
    /\ previous.result # Nothing
    /\ analysis.taskType = "criativa"
    /\ result # previous.result

---------------------------------------------------------------------------
(* The overall quality score *)

\* C16: the overall of every QualityScore evaluateQuality returns is the
\* weighted sum of its breakdown (weights 0.25, 0.25, 0.20, 0.15, 0.15)
\* rounded to the nearest integer, and lies in 0..100.
C16_OverallIsRoundedWeightedSum ==
    pc = "evaluated" =>
        LET b == qualityScore.breakdown
            hundredths == 25 * b.clarity + 25 * b.completeness + 20 * b.specificity
                            + 15 * b.techniqueBalance + 15 * b.actionability
        IN /\ 100 * qualityScore.overall - hundredths \in -50..50
           /\ qualityScore.overall \in 0..100

\* a score whose weighted sum has a fraction above one half, rounded up
C16_FractionRoundedUp ==
    /\ pc = "evaluated"
    /\ weightedSum(qualityScore.breakdown) % 100 > 50
    /\ qualityScore.overall = weightedSum(qualityScore.breakdown) \div 100 + 1

---------------------------------------------------------------------------
(* The domain matcher *)

\* C17: matchDomain returns the first template, in catalog order, of those
\* with the maximum score (5 for an equal taskType, 3 per domain-name word in
\* the lower-cased request, 2 per keyword in the domain name) when that
\* maximum is 5 or more, and none otherwise.
C17_FirstBestAtLeastFive ==
    LET statedScore(i) ==
            LET name  == toLowerCase(DOMAIN_TEMPLATES[i].domain)
                words == splitWhiteSpace(name)
            IN (IF DOMAIN_TEMPLATES[i].taskType = analysis.taskType THEN 5 ELSE 0)
               + 3 * Cardinality({w \in 1..Len(words) :
                                    includes(toLowerCase(request), words[w])})
               + 2 * Cardinality({k \in 1..Len(analysis.keywords) :
                                    includes(name, analysis.keywords[k])})
        best  == {i \in 1..Len(DOMAIN_TEMPLATES) :
                    \A k \in 1..Len(DOMAIN_TEMPLATES) : statedScore(k) <= statedScore(i)}
        first == CHOOSE i \in best : \A k \in best : i <= k
    IN pc = "matched" =>
           IF statedScore(first) >= 5
             THEN domainTemplate = DOMAIN_TEMPLATES[first]
             ELSE domainTemplate = Nothing

\* "Web Development" with no keyword and a taskType no template has: the two
\* web templates score 6 each, and the earlier one, web_frontend, is returned
C17_TieReturnsEarlierTemplate ==
    /\ pc = "matched"
    /\ request = <<"W","e","b"," ","D","e","v","e","l","o","p","m","e","n","t">>  \* 'Web Development'
    /\ analysis.keywords = << >>
    /\ analysis.taskType = "debate"
    /\ domainTemplate = DOMAIN_TEMPLATES[1]

---------------------------------------------------------------------------
(* Validation issues *)

\* C18: issues reported by validateResult are never fatal: the call is not
\* answered with an error because of them, and the answer carries the
\* framework (its directives, thinking steps and generation directive) and
\* every issue string.
C18_IssuesReportedNotThrown ==
    validation # Nothing /\ ~validation.isValid =>
        /\ pc \in {"validated", "responded"}
        /\ pc = "responded" =>
             LET text == response.content[1].text
             IN /\ ~response.isError
                /\ \A i \in 1..Len(validation.issues) :
                     includes(text, <<"-"," ">> \o validation.issues[i])  \* '- '
                /\ \A i \in 1..Len(metaInstructions.promptEngineeringDirectives) :
                     includes(text, metaInstructions.promptEngineeringDirectives[i].directive)
                /\ \A i \in 1..Len(metaInstructions.thinkingProtocol) :
                     includes(text, metaInstructions.thinkingProtocol[i])
                /\ includes(text, metaInstructions.generationDirective)

\* a call whose result has 5 techniques, one more than validateResult
\* accepts, answered with content
C18_TooManyTechniquesAnswered ==
    /\ pc = "responded"
    /\ validation.issues = << <<"M","u","i","t","a","s"," ","t","é","c","n","i","c","a","s"," ","a","p","l","i","c","a","d","a","s"," ","(","m","á","x","i","m","o"," ","4",")">> >>  \* 'Muitas técnicas aplicadas (máximo 4)'
    /\ ~response.isError

---------------------------------------------------------------------------
(* The selector: emotion_prompting and the situational part *)

C20_SituationalPartIsRankedPrefix ==
    Selected =>
        LET generated  == situationalCandidates(analysis, 1)
            candidates == [i \in 1..Len(generated) |-> generated[i].technique]
            n          == Len(candidates)
            mandatory  == IF "emotion_prompting" \in appliedTechniques THEN 3 ELSE 2
            situational == [p \in 1..(Len(techniques) - mandatory) |->
                               techniques[mandatory + p].technique]
            affinity(technique) ==
                CASE technique = "fake_audience"     -> {"educacional"}
                  [] technique = "false_restriction" -> {"criativa"}
                  [] technique = "someone_disagrees" -> {"analitica", "debate"}
                  [] technique = "bet_100_dollars"   -> {"codigo"}
                  [] technique = "simtom"            -> {"mista"}
                  [] OTHER                           -> {}
            score(i) ==
                (IF /\ analysis.complexityLevel = "expert"
                    /\ candidates[i] \in {"fake_past_consistency", "bet_100_dollars", "simtom"}
                 THEN 3 ELSE 0)
                + (IF analysis.taskType \in affinity(candidates[i]) THEN 5 ELSE 0)
            \* candidate i is ranked before candidate k
            before(i, k) == score(i) > score(k) \/ (score(i) = score(k) /\ i < k)
        IN /\ Len(situational) = (IF n < 2 THEN n ELSE 2)
           /\ \A p \in 1..Len(situational) :
                \E i \in 1..n :
                    /\ situational[p] = candidates[i]
                    /\ Cardinality({k \in 1..n : before(k, i)}) = p - 1
                    /\ \E random \in RandomIndexes :
                         techniques[mandatory + p] = situationalCandidates(analysis, random)[i]

\* three candidates or more, the sort moved a later candidate to the front,
\* and of two candidates with the same score the earlier one was kept and the
\* later one cut
C20_SortedAndTieCutInOrder ==
    /\ pc = "selected"
    /\ LET generated == situationalCandidates(analysis, 1)
           kept(i)   == generated[i].technique \in appliedTechniques
       IN /\ Len(generated) >= 3
          /\ techniques[Len(techniques) - 1].technique # generated[1].technique
          /\ \E i, k \in 1..Len(generated) :
               /\ i < k
               /\ calculateRelevanceScore(generated[i], analysis)
                    = calculateRelevanceScore(generated[k], analysis)
               /\ kept(i)
               /\ ~kept(k)

---------------------------------------------------------------------------
(* The directives and the thinking protocol of the framework *)

\* C21: the directives of every framework are, in this order: the role
\* directive, the IQ directive, one directive per technique of the list
\* other than role_prompting and iq_attribution, in list order, and the
\* structure directive, worded for codigo, for educacional, or generically.
C21_DirectiveOrder ==
    pc = "built" =>
        LET directives == metaInstructions.promptEngineeringDirectives
            others == SelectSeq(techniques,
                                LAMBDA t : t.technique \notin {"role_prompting", "iq_attribution"})
            last == directives[Len(directives)]
        IN /\ Len(directives) = Len(others) + 3
           /\ directives[1].technique = <<"R","o","l","e"," ","P","r","o","m","p","t","i","n","g">>  \* 'Role Prompting'
           /\ directives[2].technique = <<"I","Q"," ","A","t","t","r","i","b","u","t","i","o","n">>  \* 'IQ Attribution'
           /\ \A i \in 1..Len(others) :
                /\ directives[2 + i].technique = displayName(others[i].technique)
                /\ directives[2 + i].reasoning = others[i].reason
           /\ last.technique = <<"S","t","r","u","c","t","u","r","a","l"," ","O","r","g","a","n","i","z","a","t","i","o","n">>  \* 'Structural Organization'
           /\ last.directive =
                (IF analysis.taskType = "codigo"
                   THEN <<"S","t","r","u","c","t","u","r","e"," ","t","h","e"," ","p","r","o","m","p","t"," ","i","n"," ","s","e","c","t","i","o","n","s",":"," ","R","o","l","e"," ","&"," ","C","o","n","t","e","x","t",","," ","T","a","s","k"," ","D","e","s","c","r","i","p","t","i","o","n",","," ","T","e","c","h","n","i","c","a","l"," ","R","e","q","u","i","r","e","m","e","n","t","s",","," ","Q","u","a","l","i","t","y"," ","S","t","a","n","d","a","r","d","s",","," ","E","x","p","e","c","t","e","d"," ","O","u","t","p","u","t">>  \* 'Structure the prompt in sections: Role & Context, Task Description, Technical Requirements, Quality Standards, Expected Output'
                 ELSE IF analysis.taskType = "educacional"
                   THEN <<"S","t","r","u","c","t","u","r","e"," ","t","h","e"," ","p","r","o","m","p","t"," ","i","n"," ","s","e","c","t","i","o","n","s",":"," ","E","x","p","e","r","t"," ","R","o","l","e",","," ","L","e","a","r","n","i","n","g"," ","O","b","j","e","c","t","i","v","e",","," ","E","x","p","l","a","n","a","t","i","o","n"," ","A","p","p","r","o","a","c","h",","," ","E","x","a","m","p","l","e","s"," ","R","e","q","u","i","r","e","d",","," ","V","a","l","i","d","a","t","i","o","n"," ","C","r","i","t","e","r","i","a">>  \* 'Structure the prompt in sections: Expert Role, Learning Objective, Explanation Approach, Examples Required, Validation Criteria'
                 ELSE <<"S","t","r","u","c","t","u","r","e"," ","t","h","e"," ","p","r","o","m","p","t"," ","i","n"," ","c","l","e","a","r"," ","s","e","c","t","i","o","n","s",":"," ","C","o","n","t","e","x","t",","," ","O","b","j","e","c","t","i","v","e",","," ","R","e","q","u","i","r","e","m","e","n","t","s",","," ","C","o","n","s","t","r","a","i","n","t","s",","," ","E","x","p","e","c","t","e","d"," ","O","u","t","p","u","t"," ","F","o","r","m","a","t">>)  \* 'Structure the prompt in clear sections: Context, Objective, Requirements, Constraints, Expected Output Format'

\* a framework built for an educacional task from the list of all 13
\* techniques: 14 directives, the structure directive last
C21_AllTechniquesEducational ==
    /\ pc = "built"
    /\ analysis.taskType = "educacional"
    /\ techniques = AllTechniques
    /\ Len(metaInstructions.promptEngineeringDirectives) = 14
    /\ metaInstructions.promptEngineeringDirectives[14].technique = <<"S","t","r","u","c","t","u","r","a","l"," ","O","r","g","a","n","i","z","a","t","i","o","n">>  \* 'Structural Organization'

\* C22: the thinking protocol of every taskType is the fixed 3 steps, then a
\* pair of steps for the task, then the fixed 2 steps: 7 entries, the task's
\* pair at places 4 and 5.
C22_SevenStepsWithTaskPair ==
    pc = "built" =>
        LET protocol == metaInstructions.thinkingProtocol
        IN /\ Len(protocol) = 7
           /\ SubSeq(protocol, 1, 3) =
                << <<"S","t","e","p"," ","1",":"," ","R","e","a","d"," ","a","n","d"," ","a","n","a","l","y","z","e"," ","t","h","e"," ","o","r","i","g","i","n","a","l"," ","r","e","q","u","e","s","t"," ","c","a","r","e","f","u","l","l","y">>,  \* 'Step 1: Read and analyze the original request carefully'
                   <<"S","t","e","p"," ","2",":"," ","I","d","e","n","t","i","f","y"," ","t","h","e"," ","c","o","r","e"," ","p","r","o","b","l","e","m"," ","a","n","d"," ","i","m","p","l","i","c","i","t"," ","r","e","q","u","i","r","e","m","e","n","t","s">>,  \* 'Step 2: Identify the core problem and implicit requirements'
                   <<"S","t","e","p"," ","3",":"," ","C","o","n","s","i","d","e","r"," ","t","h","e"," ","d","o","m","a","i","n"," ","e","x","p","e","r","t","i","s","e"," ","n","e","e","d","e","d">> >>  \* 'Step 3: Consider the domain expertise needed'
           /\ includes(protocol[4], <<"S","t","e","p"," ","4">>)  \* 'Step 4'
           /\ includes(protocol[5], <<"S","t","e","p"," ","5">>)  \* 'Step 5'
           /\ SubSeq(protocol, 6, 7) =
                << <<"S","t","e","p"," ","6",":"," ","S","t","r","u","c","t","u","r","e"," ","t","h","e"," ","p","r","o","m","p","t"," ","w","i","t","h"," ","c","l","e","a","r"," ","s","e","c","t","i","o","n","s"," ","a","n","d"," ","r","e","q","u","i","r","e","m","e","n","t","s">>,  \* 'Step 6: Structure the prompt with clear sections and requirements'
                   <<"S","t","e","p"," ","7",":"," ","V","a","l","i","d","a","t","e"," ","t","h","a","t"," ","a","l","l"," ","m","e","t","a","-","i","n","s","t","r","u","c","t","i","o","n","s"," ","a","r","e"," ","i","n","c","o","r","p","o","r","a","t","e","d">> >>  \* 'Step 7: Validate that all meta-instructions are incorporated'

---------------------------------------------------------------------------
(* The quality score *)

\* C23: whatever the framework, the analysis and the technique list, each
\* member of the breakdown evaluateQuality returns lies in 0..100;
\* completeness, the sum of the budgets 20, 25, 25, 20 and 10, is at most 100.
C23_BreakdownInRange ==
    pc = "evaluated" =>
        /\ qualityScore.breakdown.clarity \in 0..100
        /\ qualityScore.breakdown.completeness \in 0..100
        /\ qualityScore.breakdown.specificity \in 0..100
        /\ qualityScore.breakdown.techniqueBalance \in 0..100
        /\ qualityScore.breakdown.actionability \in 0..100

\* 24 techniques and 25 vague directives: the penalties of clarity,
\* specificity, technique balance and actionability each exceed the start
\* value, and the member returned is 0
C23_PenaltiesBeyondStartValue ==
    /\ pc = "evaluated"
    /\ Len(techniques) = 24
    /\ Len(metaInstructions.promptEngineeringDirectives) = 25
    /\ qualityScore.breakdown.clarity = 0
    /\ qualityScore.breakdown.specificity = 0
    /\ qualityScore.breakdown.techniqueBalance = 0
    /\ qualityScore.breakdown.actionability = 0

\* C24: the confidence is high if and only if overall >= 85, there are at
\* least 4 directives and at least 5 thinking steps; otherwise it is medium
\* if and only if overall >= 70 and there are at least 3 directives; it is
\* low in every other case.
C24_ConfidenceCascade ==
    pc = "evaluated" =>
        LET directiveCount == Len(metaInstructions.promptEngineeringDirectives)
            thinkingSteps == Len(metaInstructions.thinkingProtocol)
            high == qualityScore.overall >= 85 /\ directiveCount >= 4 /\ thinkingSteps >= 5
            medium == qualityScore.overall >= 70 /\ directiveCount >= 3
        IN /\ qualityScore.confidence = "high" <=> high
           /\ qualityScore.confidence = "medium" <=> ~high /\ medium
           /\ qualityScore.confidence = "low" <=> ~high /\ ~medium

\* C24 as stated: medium if and only if overall >= 70 and there are at least
\* 3 directives, whether or not the conditions of high hold as well
C24_MediumIffItsOwnCondition ==
    pc = "evaluated" =>
        LET directiveCount == Len(metaInstructions.promptEngineeringDirectives)
            thinkingSteps == Len(metaInstructions.thinkingProtocol)
        IN /\ qualityScore.confidence = "high"
                <=> qualityScore.overall >= 85 /\ directiveCount >= 4 /\ thinkingSteps >= 5
           /\ qualityScore.confidence = "medium"
                <=> qualityScore.overall >= 70 /\ directiveCount >= 3
           /\ qualityScore.confidence = "low"
                <=> ~(qualityScore.overall >= 85 /\ directiveCount >= 4 /\ thinkingSteps >= 5)
                    /\ ~(qualityScore.overall >= 70 /\ directiveCount >= 3)

\* a framework of at least 4 directives scoring 85 or more whose thinking
\* protocol has 3 steps: medium, where 5 steps would make it high
C24_ThreeStepsKeepItMedium ==
    /\ pc = "evaluated"
    /\ qualityScore.overall >= 85
    /\ Len(metaInstructions.promptEngineeringDirectives) >= 4
    /\ Len(metaInstructions.thinkingProtocol) = 3
    /\ qualityScore.confidence = "medium"

\* C25: evaluateTechniqueBalance subtracts 30 exactly when the technique list
\* holds no technique the catalog marks mandatory (role_prompting,
\* emotion_prompting, iq_attribution): the score is 100, less 20 under three
\* techniques, less 10 for each technique beyond five, less 30 without a
\* mandatory technique, plus 10 for the balance bonus, kept within 0..100.
C25_PenaltyIffNoCatalogMandatory ==
    pc = "evaluated" =>
        LET n == Len(techniques)
            mandatoryCount == Cardinality({i \in 1..n : isMandatory(techniques[i].technique)})
            raw == 100 - (IF n < 3 THEN 20 ELSE 0)
                       - (IF n > 5 THEN (n - 5) * 10 ELSE 0)
                       - (IF mandatoryCount = 0 THEN 30 ELSE 0)
                       + (IF mandatoryCount >= 2 /\ n - mandatoryCount \in 1..2 THEN 10 ELSE 0)
        IN qualityScore.breakdown.techniqueBalance
               = IF raw < 0 THEN 0 ELSE IF raw > 100 THEN 100 ELSE raw

\* C26: evaluateClarity takes its 15 points for the generation directive
\* exactly when validateMetaInstructions reports 'Generation directive does
\* not instruct AI to generate prompt' for the same framework: the clarity is
\* that of the framework with a verbless directive when the issue is
\* reported, and with the directive "generate" when it is not.
C26_ClarityPenaltyIffValidatorIssue ==
    pc = "evaluated" =>
        LET issues == validateMetaInstructions(metaInstructions).issues
            reported == \E i \in 1..Len(issues) :
                issues[i] = <<"G","e","n","e","r","a","t","i","o","n"," ","d","i","r","e","c","t","i","v","e"," ","d","o","e","s"," ","n","o","t"," ","i","n","s","t","r","u","c","t"," ","A","I"," ","t","o"," ","g","e","n","e","r","a","t","e"," ","p","r","o","m","p","t">>  \* 'Generation directive does not instruct AI to generate prompt'
            agreed == [metaInstructions EXCEPT
                          !.generationDirective = IF reported THEN << >> ELSE <<"g","e","n","e","r","a","t","e">>]  \* 'generate'
        IN qualityScore.breakdown.clarity
               = evaluateClarity(agreed, calculateMetrics(metaInstructions))

---------------------------------------------------------------------------
(* The context argument *)

---------------------------------------------------------------------------
(* The directives of a selected technique list *)

\* C28: for every technique list selectTechniques produces, the framework has
\* one directive more than there are selected techniques (the structure
\* directive), and the step fields of the directives are 1, 2, ..., n in list
\* order.
C28_NoSelectedTechniqueSkipped ==
    pc = "built" /\ (\E random \in RandomIndexes : techniques = selectTechniques(analysis, random)) =>
        LET directives == metaInstructions.promptEngineeringDirectives
        IN /\ Len(directives) = Len(techniques) + 1
           /\ \A i \in 1..Len(directives) : directives[i].step = i

\* a selection of 5 techniques, emotion_prompting third, built into 6
\* directives numbered up to 6
C28_FiveSelectedSixDirectives ==
    /\ pc = "built"
    /\ \E random \in RandomIndexes : techniques = selectTechniques(analysis, random)
    /\ Len(techniques) = 5
    /\ techniques[3].technique = "emotion_prompting"
    /\ Len(metaInstructions.promptEngineeringDirectives) = 6
    /\ metaInstructions.promptEngineeringDirectives[6].step = 6

---------------------------------------------------------------------------
(* The false restriction *)

\* C29: when false_restriction is among the techniques selectTechniques
\* produced, its implementation is one of the 3 restrictions, its directive
\* ends with that same text and constraintsToObserve holds that same text and
\* no other restriction; when false_restriction is not selected,
\* constraintsToObserve holds none of the 3 restrictions.
C29_RestrictionDrawnOnce ==
    pc = "built" /\ (\E random \in RandomIndexes : techniques = selectTechniques(analysis, random)) =>
        LET drawn == {techniques[i].implementation :
                         i \in {j \in 1..Len(techniques) : techniques[j].technique = "false_restriction"}}
            directives == metaInstructions.promptEngineeringDirectives
            constraints == metaInstructions.requiredStructuralElements.constraintsToObserve
            embedded == {directives[i].directive :
                            i \in {j \in 1..Len(directives) :
                                      directives[j].technique = displayName("false_restriction")}}
            observed == {constraints[i] :
                            i \in {j \in 1..Len(constraints) :
                                      \E r \in RandomIndexes : constraints[j] = restrictions[r]}}
        IN /\ Cardinality(drawn) <= 1
           /\ \A text \in drawn : \E r \in RandomIndexes : text = restrictions[r]
           /\ embedded = {<<"A","p","p","l","y"," ","c","r","e","a","t","i","v","e"," ","c","o","n","s","t","r","a","i","n","t","s"," ","u","s","i","n","g"," ","\"","F","a","l","s","e"," ","R","e","s","t","r","i","c","t","i","o","n","\""," ","-"," ">> \o text :  \* 'Apply creative constraints using \"False Restriction\" - '
                             text \in drawn}
           /\ observed = drawn
           /\ Cardinality({j \in 1..Len(constraints) :
                              \E r \in RandomIndexes : constraints[j] = restrictions[r]})
                = Cardinality(drawn)

\* a selection with false_restriction whose text is the third restriction,
\* found again in the directive's technique and among the constraints
C29_ThirdRestrictionEverywhere ==
    /\ pc = "built"
    /\ \E random \in RandomIndexes : techniques = selectTechniques(analysis, random)
    /\ \E i \in 1..Len(techniques) :
         /\ techniques[i].technique = "false_restriction"
         /\ techniques[i].implementation = restrictions[3]
    /\ \E i \in 1..Len(metaInstructions.requiredStructuralElements.constraintsToObserve) :
         metaInstructions.requiredStructuralElements.constraintsToObserve[i] = restrictions[3]

---------------------------------------------------------------------------
(* Calls handled one after another by the one PromptOptimizer *)

====
